---------------------------- MODULE Spec2Model ----------------------------
(***************************************************************************)
(* A model of git-analyzer's provider clients (pkg/repo/repo.go): the      *)
(* blame aggregation walk GetBlameInfo, the ranked formatter               *)
(* FormatBlameInfo, and the listing adapters ListRepositories and          *)
(* ListPullRequests, for the two providers GitHub and GitLab; and of the   *)
(* HTTP server (pkg/server/server.go) that validates a message,            *)
(* authenticates, and calls the clients.                                   *)
(*                                                                         *)
(* The remote service is the environment: it holds the repositories, the   *)
(* pull requests and the per-file commit histories, answers every call     *)
(* with one page of data or with an error, and is chosen by Init.          *)
(***************************************************************************)
EXTENDS Integers, Sequences, FiniteSets, TLC

(***************************************************************************)
(* Bounds of the model.                                                    *)
(***************************************************************************)
\* commits the remote repository holds, over the histories of all files
MaxCommits == 3
\* commits the remote returns for one history query that names no page size:
\* the provider's default page, 30 on GitHub and 20 on GitLab, scaled down
GitHubPageSize == 3
GitLabPageSize == 2
\* longest token saved to the token cache
MaxTokenLen == 2
\* longest changed-file list handed to GetBlameInfo
MaxFiles == 3
\* largest count in a map handed straight to FormatBlameInfo
MaxLines == 5
\* repositories the remote account holds
MaxRepos == 3

VARIABLES
    provider,    \* which RepositoryClient this is: "github" or "gitlab"
    histories,   \* remote: file path -> its full commit history, newest first
    pc,          \* GetBlameInfo: "idle", "walk" (inside the file loop), "done"
    files,       \* GetBlameInfo: the files argument
    fileIdx,     \* GetBlameInfo: position of the outer range loop (1-based)
    blameInfo,   \* GetBlameInfo: the local map author -> BlameInfo
    encounter,   \* the authors in the order the walk first inserted them
    ret,         \* GetBlameInfo: the returned (map, error) pair
    calls,       \* remote calls issued by the current GetBlameInfo call
    prev,        \* files and map of the successful call the caller repeats
    output,      \* FormatBlameInfo's text for ret, once it was printed
    repoRemote,  \* remote: the account's repositories, in the remote's order
    repoRet,     \* ListRepositories: the returned (slice, error) pair
    repoCalls,   \* remote calls issued by the current ListRepositories call
    prRemote,    \* remote: the repository's change requests, in remote order
    prFiles,     \* remote: change-request number -> its changed file paths
    prPc,        \* ListPullRequests: "idle", "loop" (inside the loop), "done"
    prs,         \* ListPullRequests: the listing the remote answered with
    prIdx,       \* ListPullRequests: position of the range loop (1-based)
    prResult,    \* ListPullRequests: the local result slice
    prRet,       \* ListPullRequests: the returned (slice, error) pair
    prCalls,     \* remote calls issued by the current ListPullRequests call
    repoFullName,\* the repoFullName argument of the client calls
    request,     \* server: the HTTP request being served
    srvPc,       \* server: position of the handler serving the request
    req,         \* server: the *AnalysisRequest validate returned
    valErr,      \* server: the error validate returned ("" for nil)
    response,    \* server: the ResponseWriter (status code and body)
    authCalls,   \* server: Authenticate calls made for the request
    selectedPR,  \* server: the pull request found in the listing, or nil
    logStep,     \* server: external steps of the git-log branch done so far
    writes,      \* server: status lines written to the ResponseWriter
    cwd,         \* the working directory of the server process
    cliPc,       \* runAnalysis: the position of the command
    analysisType,\* runAnalysis: "blame" or "log"
    cliRet,      \* runAnalysis: how it ended: nil, an error, or a panic
    cacheFile,   \* the token cache file ~/.repo-analyzer-tokens.json
    tokenOp      \* the last call of SaveToken or GetCachedToken, its result

blameVars == <<histories, pc, files, fileIdx, blameInfo, encounter, ret,
               calls, prev, output>>

repoVars == <<repoRemote, repoRet, repoCalls>>

pullVars == <<prRemote, prFiles, prPc, prs, prIdx, prResult, prRet, prCalls>>

serverVars == <<repoFullName, request, srvPc, req, valErr, response,
                authCalls, selectedPR, logStep, writes, cwd>>

cliVars == <<cliPc, analysisType, cliRet, cacheFile, tokenOp>>

vars == <<provider, blameVars, repoVars, pullVars, serverVars, cliVars>>

Providers == {"github", "gitlab"}
Files == {"a.go", "b.go"}

(***************************************************************************)
(* Helpers on sequences.                                                   *)
(***************************************************************************)
Min(a, b) == IF a < b THEN a ELSE b

SeqsUpTo(S, n) == UNION {[1..k -> S] : k \in 0..n}

Range(s) == {s[i] : i \in DOMAIN s}

\* all orderings of the elements of a finite set
RECURSIVE Orderings(_)
Orderings(S) ==
    IF S = {} THEN {<<>>}
    ELSE UNION {{<<x>> \o s : s \in Orderings(S \ {x})} : x \in S}

\* how often x occurs in s
Occurrences(s, x) == Cardinality({i \in DOMAIN s : s[i] = x})

\* t is a rearrangement of s
IsPermutationOf(t, s) ==
    /\ Len(t) = Len(s)
    /\ \A x \in Range(s) \cup Range(t) : Occurrences(t, x) = Occurrences(s, x)

(***************************************************************************)
(* The remote's commits.  A commit's author carries the account handle     *)
(* (GitHub's login; GitLab's commit record has none), the display name     *)
(* and the e-mail address; any of them may be empty.                       *)
(***************************************************************************)
CommitTypes ==
    { [login |-> "",      name |-> "alice", email |-> "alice@x"],
      [login |-> "bobby", name |-> "bob",   email |-> "bob@x"],
      [login |-> "",      name |-> "",      email |-> "carol@x"],
      [login |-> "",      name |-> "",      email |-> ""] }

\* the repositories over the given kinds of commits
RepoContents(types) ==
    {h \in [Files -> SeqsUpTo(types, MaxCommits)] :
        Len(h["a.go"]) + Len(h["b.go"]) <= MaxCommits}

(***************************************************************************)
(* Repository identifiers.  A full name is the sequence of its characters, *)
(* so that strings.Split can be computed on it.                            *)
(***************************************************************************)
\* "o/r", "g/s/r", "or", "/", ""
RepoFullNames ==
    { <<"o", "/", "r">>, <<"g", "/", "s", "/", "r">>, <<"o", "r">>, <<"/">>,
      <<>> }

\* strings.Split(s, sep) for a one-character separator
RECURSIVE Split(_, _)
Split(str, sep) ==
    IF \A i \in DOMAIN str : str[i] # sep THEN <<str>>
    ELSE LET k == CHOOSE i \in DOMAIN str :
                      /\ str[i] = sep
                      /\ \A j \in 1..(i - 1) : str[j] # sep
         IN  <<SubSeq(str, 1, k - 1)>> \o Split(SubSeq(str, k + 1, Len(str)), sep)

\* splitRepoFullName of pkg/repo: the pair (owner, repo), or ("", "") when
\* the name does not split into two parts; it returns no error
splitRepoFullName(fullName) ==
    LET parts == Split(fullName, "/")
    IN  IF Len(parts) # 2
        THEN [owner |-> <<>>, repo |-> <<>>]
        ELSE [owner |-> parts[1], repo |-> parts[2]]

\* the remote answers the calls that name a repository it holds: GitHub is
\* asked with the owner and the name, GitLab with the whole path, which may
\* lie in a nested group
GitHubRemoteHas(ownerRepo) ==
    ownerRepo.owner = <<"o">> /\ ownerRepo.repo = <<"r">>

GitLabRemoteHas(pid) == pid \in { <<"o", "/", "r">>, <<"g", "/", "s", "/", "r">> }

(***************************************************************************)
(* map[string]BlameInfo.                                                   *)
(***************************************************************************)
ZeroBlameInfo == [User |-> "", Lines |-> 0]

EmptyMap == [a \in {} |-> ZeroBlameInfo]

\* blameInfo[author] on a Go map: the zero value for a missing key
MapGet(m, k) == IF k \in DOMAIN m THEN m[k] ELSE ZeroBlameInfo

\* blameInfo[author] = info
MapPut(m, k, v) == [x \in (DOMAIN m) \cup {k} |-> IF x = k THEN v ELSE m[x]]

\* make(map[string]BlameInfo) at the top of a GetBlameInfo call; the argument
\* is what the previous call left behind, which a fresh map does not read
GitHubNewBlameMapKeepOld(old) == old
GitHubNewBlameMap(old) == EmptyMap

GitLabNewBlameMapKeepOld(old) == old
GitLabNewBlameMap(old) == EmptyMap

(***************************************************************************)
(* The remote history query.  Neither client sets a page size or follows   *)
(* the response's next-page link, so a call sees the first page only.      *)
(***************************************************************************)
FirstPage(h, size) == SubSeq(h, 1, Min(Len(h), size))

GitHubListCommits(file) == FirstPage(histories[file], GitHubPageSize)

GitLabListCommits(file) == FirstPage(histories[file], GitLabPageSize)

ListCommits(p, file) ==
    IF p = "github" THEN GitHubListCommits(file) ELSE GitLabListCommits(file)

(***************************************************************************)
(* Author identity of one commit: the name, or the e-mail address when     *)
(* the name is empty.                                                      *)
(***************************************************************************)
GitHubAuthor(c) == IF c.name = "" THEN c.email ELSE c.name

GitLabAuthor(c) == IF c.name = "" THEN c.email ELSE c.name

Author(p, c) == IF p = "github" THEN GitHubAuthor(c) ELSE GitLabAuthor(c)

(***************************************************************************)
(* The inner loop: one commit adds one unit to its author's entry.         *)
(***************************************************************************)
GitHubAddCommitAssign(m, c) ==
    LET author == GitHubAuthor(c)
    IN  MapPut(m, author, [User |-> author, Lines |-> 1])
GitHubAddCommit(m, c) ==
    LET author == GitHubAuthor(c)
        info   == MapGet(m, author)
    IN  MapPut(m, author, [User |-> author, Lines |-> info.Lines + 1])

\* a commit without an author name left out
GitLabAddCommitNamedOnly(m, c) ==
    LET author == GitLabAuthor(c)
        info   == MapGet(m, author)
    IN  IF c.name = "" THEN m
        ELSE MapPut(m, author, [User |-> author, Lines |-> info.Lines + 1])
\* info.User left as the entry had it
GitLabAddCommitUserUnset(m, c) ==
    LET author == GitLabAuthor(c)
        info   == MapGet(m, author)
    IN  MapPut(m, author, [User |-> info.User, Lines |-> info.Lines + 1])
GitLabAddCommit(m, c) ==
    LET author == GitLabAuthor(c)
        info   == MapGet(m, author)
    IN  MapPut(m, author, [User |-> author, Lines |-> info.Lines + 1])

RECURSIVE GitHubAddCommits(_, _)
GitHubAddCommits(m, commits) ==
    IF commits = <<>> THEN m
    ELSE GitHubAddCommits(GitHubAddCommit(m, Head(commits)), Tail(commits))

RECURSIVE GitLabAddCommits(_, _)
GitLabAddCommits(m, commits) ==
    IF commits = <<>> THEN m
    ELSE GitLabAddCommits(GitLabAddCommit(m, Head(commits)), Tail(commits))

\* the order in which authors first enter the map (kept beside the map,
\* which itself records no order)
RECURSIVE NoteAuthors(_, _, _)
NoteAuthors(p, enc, commits) ==
    IF commits = <<>> THEN enc
    ELSE LET a == Author(p, Head(commits))
         IN  NoteAuthors(p, IF a \in Range(enc) THEN enc ELSE Append(enc, a),
                         Tail(commits))

(***************************************************************************)
(* The ways GetBlameInfo returns: (nil, error) and (blameInfo, nil).       *)
(***************************************************************************)
NoReturn == [isNil |-> TRUE, m |-> EmptyMap, err |-> FALSE]

GitHubErrorReturnPartial(m) == [isNil |-> FALSE, m |-> m, err |-> TRUE]
GitHubErrorReturn(m) == [isNil |-> TRUE, m |-> EmptyMap, err |-> TRUE]

GitLabErrorReturn(m) == [isNil |-> TRUE, m |-> EmptyMap, err |-> TRUE]

GitHubSuccessReturnNilWhenEmpty(m) ==
    [isNil |-> m = EmptyMap, m |-> m, err |-> FALSE]
GitHubSuccessReturn(m) == [isNil |-> FALSE, m |-> m, err |-> FALSE]

GitLabSuccessReturn(m) == [isNil |-> FALSE, m |-> m, err |-> FALSE]

NoOutput == [written |-> FALSE, header |-> <<>>, lines |-> <<>>]

NoPrev == [set |-> FALSE, files |-> <<>>, m |-> EmptyMap]

(***************************************************************************)
(* FormatBlameInfo.  The map is copied to a slice in the map's iteration   *)
(* order, which the language leaves unspecified; sort.Slice then orders    *)
(* the slice by the less function and is not stable, so it may return any  *)
(* arrangement in which no element is less than one placed before it.      *)
(***************************************************************************)
MapIterationOrders(m) == Orderings({m[k] : k \in DOMAIN m})

\* sort.Slice(s, less), the less function given as the set of the pairs
\* <<x, y>> of elements with less(x, y)
SortSlice(s, less) ==
    {t \in {[i \in DOMAIN s |-> s[p[i]]] : p \in Orderings(DOMAIN s)} :
        \A i, j \in 1..Len(t) : i < j => <<t[j], t[i]>> \notin less}

\* infoSlice[i].Lines > infoSlice[j].Lines
MoreLines(S) == {xy \in S \X S : xy[1].Lines > xy[2].Lines}

FewerLines(S) == {xy \in S \X S : xy[1].Lines < xy[2].Lines}

BlameHeader == <<"\nAuthors and Lines Touched:\n", "-------------------------\n">>

\* "%s: %d lines\n" of one entry, kept as the pair it prints
BlameLine(info) == <<info.User, info.Lines>>

FormatBlameInfoAscending(m) ==
    {[written |-> TRUE, header |-> BlameHeader,
      lines |-> [i \in DOMAIN t |-> BlameLine(t[i])]] :
        t \in UNION {SortSlice(s, FewerLines(Range(s))) :
                      s \in MapIterationOrders(m)}}
FormatBlameInfo(m) ==
    {[written |-> TRUE, header |-> BlameHeader,
      lines |-> [i \in DOMAIN t |-> BlameLine(t[i])]] :
        t \in UNION {SortSlice(s, MoreLines(Range(s))) :
                      s \in MapIterationOrders(m)}}

(***************************************************************************)
(* GitHubClient.GetBlameInfo, one step per remote call.                    *)
(***************************************************************************)
\* entry: the fresh map, the loop at its first file
GetBlameInfoBegin(fs, newMap, remembered) ==
    /\ pc' = "walk"
    /\ files' = fs
    /\ fileIdx' = 1
    /\ blameInfo' = newMap
    /\ encounter' = <<>>
    /\ ret' = NoReturn
    /\ calls' = 0
    /\ prev' = remembered
    /\ output' = NoOutput
    /\ UNCHANGED <<provider, histories, repoVars, pullVars,
                   serverVars, cliVars>>

GitHubBegin ==
    /\ provider = "github"
    /\ pc = "idle"
    /\ \E fs \in SeqsUpTo(Files, MaxFiles) :
          GetBlameInfoBegin(fs, GitHubNewBlameMap(blameInfo), NoPrev)

\* one iteration of the file loop whose ListCommits call succeeds
GitHubFileFreshMap ==
    /\ provider = "github"
    /\ GitHubRemoteHas(splitRepoFullName(repoFullName))
    /\ pc = "walk"
    /\ fileIdx <= Len(files)
    /\ LET commits == GitHubListCommits(files[fileIdx])
       IN  /\ blameInfo' = GitHubAddCommits(EmptyMap, commits)
           /\ encounter' = NoteAuthors("github", encounter, commits)
    /\ fileIdx' = fileIdx + 1
    /\ calls' = calls + 1
    /\ UNCHANGED <<provider, histories, pc, files, ret, prev, output,
                   repoVars, pullVars,
                   serverVars, cliVars>>
GitHubFile ==
    /\ provider = "github"
    /\ GitHubRemoteHas(splitRepoFullName(repoFullName))
    /\ pc = "walk"
    /\ fileIdx <= Len(files)
    /\ LET commits == GitHubListCommits(files[fileIdx])
       IN  /\ blameInfo' = GitHubAddCommits(blameInfo, commits)
           /\ encounter' = NoteAuthors("github", encounter, commits)
    /\ fileIdx' = fileIdx + 1
    /\ calls' = calls + 1
    /\ UNCHANGED <<provider, histories, pc, files, ret, prev, output,
                   repoVars, pullVars,
                   serverVars, cliVars>>

\* one iteration of the file loop whose ListCommits call fails
GitHubFileError ==
    /\ provider = "github"
    /\ pc = "walk"
    /\ fileIdx <= Len(files)
    /\ calls' = calls + 1
    /\ ret' = GitHubErrorReturn(blameInfo)
    /\ pc' = "done"
    /\ UNCHANGED <<provider, histories, files, fileIdx, blameInfo, encounter,
                   prev, output, repoVars, pullVars,
                   serverVars, cliVars>>

\* the loop is over
GitHubReturn ==
    /\ provider = "github"
    /\ pc = "walk"
    /\ fileIdx > Len(files)
    /\ ret' = GitHubSuccessReturn(blameInfo)
    /\ pc' = "done"
    /\ UNCHANGED <<provider, histories, files, fileIdx, blameInfo, encounter,
                   calls, prev, output, repoVars, pullVars,
                   serverVars, cliVars>>

GitHubGetBlameInfo ==
    GitHubBegin \/ GitHubFile \/ GitHubFileError \/ GitHubReturn

(***************************************************************************)
(* GitLabClient.GetBlameInfo, one step per remote call.                    *)
(***************************************************************************)
GitLabBegin ==
    /\ provider = "gitlab"
    /\ pc = "idle"
    /\ \E fs \in SeqsUpTo(Files, MaxFiles) :
          GetBlameInfoBegin(fs, GitLabNewBlameMap(blameInfo), NoPrev)

GitLabFile ==
    /\ provider = "gitlab"
    /\ GitLabRemoteHas(repoFullName)
    /\ pc = "walk"
    /\ fileIdx <= Len(files)
    /\ LET commits == GitLabListCommits(files[fileIdx])
       IN  /\ blameInfo' = GitLabAddCommits(blameInfo, commits)
           /\ encounter' = NoteAuthors("gitlab", encounter, commits)
    /\ fileIdx' = fileIdx + 1
    /\ calls' = calls + 1
    /\ UNCHANGED <<provider, histories, pc, files, ret, prev, output,
                   repoVars, pullVars,
                   serverVars, cliVars>>

GitLabFileErrorRetry ==
    /\ provider = "gitlab"
    /\ pc = "walk"
    /\ fileIdx <= Len(files)
    /\ calls < fileIdx
    /\ calls' = calls + 1
    /\ UNCHANGED <<provider, histories, pc, files, fileIdx, blameInfo,
                   encounter, ret, prev, output, repoVars, pullVars,
                   serverVars, cliVars>>
GitLabFileError ==
    /\ provider = "gitlab"
    /\ pc = "walk"
    /\ fileIdx <= Len(files)
    /\ calls' = calls + 1
    /\ ret' = GitLabErrorReturn(blameInfo)
    /\ pc' = "done"
    /\ UNCHANGED <<provider, histories, files, fileIdx, blameInfo, encounter,
                   prev, output, repoVars, pullVars,
                   serverVars, cliVars>>

GitLabReturn ==
    /\ provider = "gitlab"
    /\ pc = "walk"
    /\ fileIdx > Len(files)
    /\ ret' = GitLabSuccessReturn(blameInfo)
    /\ pc' = "done"
    /\ UNCHANGED <<provider, histories, files, fileIdx, blameInfo, encounter,
                   calls, prev, output, repoVars, pullVars,
                   serverVars, cliVars>>

GitLabGetBlameInfo ==
    GitLabBegin \/ GitLabFile \/ GitLabFileError \/ GitLabReturn

(***************************************************************************)
(* The caller prints FormatBlameInfo of a map GetBlameInfo returned.       *)
(***************************************************************************)
PrintBlameInfo ==
    /\ pc = "done"
    /\ ~ret.err
    /\ ~output.written
    /\ output' \in FormatBlameInfo(ret.m)
    /\ UNCHANGED <<provider, histories, pc, files, fileIdx, blameInfo,
                   encounter, ret, calls, prev, repoVars, pullVars,
                   serverVars, cliVars>>

\* the caller is finished with what the call returned
DropBlameInfo ==
    /\ pc = "done"
    /\ pc' = "idle"
    /\ files' = <<>>
    /\ fileIdx' = 1
    /\ blameInfo' = EmptyMap
    /\ encounter' = <<>>
    /\ ret' = NoReturn
    /\ calls' = 0
    /\ prev' = NoPrev
    /\ output' = NoOutput
    /\ UNCHANGED <<provider, histories, repoVars, pullVars,
                   serverVars, cliVars>>

(***************************************************************************)
(* The caller repeats a successful call on the same client, with the same  *)
(* file paths in any order, and keeps the first answer to compare.         *)
(***************************************************************************)
Rearrangements(s) == {t \in [1..Len(s) -> Range(s)] : IsPermutationOf(t, s)}

Remembered == [set |-> TRUE, files |-> files, m |-> ret.m]

GitHubRepeat ==
    /\ provider = "github"
    /\ pc = "done"
    /\ ~ret.err
    /\ \E fs \in Rearrangements(files) :
          GetBlameInfoBegin(fs, GitHubNewBlameMap(blameInfo), Remembered)

GitLabRepeat ==
    /\ provider = "gitlab"
    /\ pc = "done"
    /\ ~ret.err
    /\ \E fs \in Rearrangements(files) :
          GetBlameInfoBegin(fs, GitLabNewBlameMap(blameInfo), Remembered)

(***************************************************************************)
(* Initial values of the parts a specification does not exercise.          *)
(***************************************************************************)
BlameIdle ==
    /\ pc = "idle"
    /\ files = <<>>
    /\ fileIdx = 1
    /\ blameInfo = EmptyMap
    /\ encounter = <<>>
    /\ ret = NoReturn
    /\ calls = 0
    /\ prev = NoPrev
    /\ output = NoOutput

NoRepos ==
    /\ repoRemote = <<>>
    /\ repoRet = [isNil |-> TRUE, list |-> <<>>, err |-> FALSE]
    /\ repoCalls = 0

NoPulls ==
    /\ prRemote = <<>>
    /\ prFiles = <<>>
    /\ prPc = "idle"
    /\ prs = <<>>
    /\ prIdx = 1
    /\ prResult = <<>>
    /\ prRet = [isNil |-> TRUE, list |-> <<>>, err |-> FALSE]
    /\ prCalls = 0

\* a JSON value of the arguments object that is absent
Missing(zero) == [kind |-> "missing", val |-> zero]

NoBody ==
    [kind |-> "none", name |-> "", provider |-> Missing(""),
     token |-> Missing(""), repository |-> Missing(<<>>),
     pullRequest |-> Missing(0)]

NoRequest ==
    [path |-> "", method |-> "", contentType |-> "", body |-> NoBody]

\* a nil *AnalysisRequest
NoReq ==
    [isNil |-> TRUE, Name |-> "", provider |-> "", token |-> "",
     repository |-> <<>>, pullRequest |-> 0]

\* a fresh ResponseWriter: status 200 until a header is written
NoResponse ==
    [status |-> 200, written |-> FALSE, kind |-> "none", Status |-> "",
     Message |-> "", Error |-> "", Data |-> <<>>, prompts |-> <<>>]

\* a nil *repo.PullRequest
NoPR == [isNil |-> TRUE, Number |-> 0, ChangedFiles |-> <<>>]

\* the directory the server was started in, and the directory MkdirTemp made
StartDir == "."

TempDir == "git-log-*"

ServerIdle ==
    /\ request = NoRequest
    /\ srvPc = "idle"
    /\ req = NoReq
    /\ valErr = ""
    /\ response = NoResponse
    /\ authCalls = 0
    /\ selectedPR = NoPR
    /\ logStep = 0
    /\ writes = 0
    /\ cwd = StartDir

\* no token cache file
AbsentFile == [kind |-> "absent", github_token |-> <<>>, gitlab_token |-> <<>>]

\* no call of the token cache yet
NoTokenOp ==
    [op |-> "none", provider |-> "", token |-> <<>>, before |-> AbsentFile,
     err |-> FALSE, value |-> <<>>]

NoTokenCache ==
    /\ cacheFile = AbsentFile
    /\ tokenOp = NoTokenOp

\* runAnalysis is not running
NoCli ==
    /\ cliPc = "idle"
    /\ analysisType = ""
    /\ cliRet = "none"
    /\ NoTokenCache

\* no server: the caller names the repository "o/r"
NoServer ==
    /\ ServerIdle
    /\ repoFullName = <<"o", "/", "r">>

(***************************************************************************)
(* The aggregation specification: one client, one call after another.      *)
(***************************************************************************)
Init ==
    /\ NoCli
    /\ provider \in Providers
    /\ histories \in RepoContents(CommitTypes)
    /\ BlameIdle
    /\ NoRepos
    /\ NoPulls
    /\ NoServer

Next ==
    GitHubGetBlameInfo \/ GitLabGetBlameInfo \/ PrintBlameInfo \/ DropBlameInfo

Spec == Init /\ [][Next]_vars

(***************************************************************************)
(* The repeated-call specification: commits whose author has a name.       *)
(***************************************************************************)
NamedCommitTypes == {c \in CommitTypes : c.name # ""}

InitRepeat ==
    /\ NoCli
    /\ provider \in Providers
    /\ histories \in RepoContents(NamedCommitTypes)
    /\ BlameIdle
    /\ NoRepos
    /\ NoPulls
    /\ NoServer

NextRepeat == Next \/ GitHubRepeat \/ GitLabRepeat

SpecRepeat == InitRepeat /\ [][NextRepeat]_vars

(***************************************************************************)
(* The formatter specification: FormatBlameInfo on maps of up to three     *)
(* authors, each with the order in which the authors were encountered.     *)
(***************************************************************************)
RankedAuthors == {"A", "B", "C"}

BlameMaps ==
    UNION {[S -> 1..MaxLines] : S \in SUBSET RankedAuthors}

AsBlameMap(counts) ==
    [a \in DOMAIN counts |-> [User |-> a, Lines |-> counts[a]]]

InitFormat ==
    /\ NoCli
    /\ provider = "github"
    /\ histories = [f \in Files |-> <<>>]
    /\ pc = "done"
    /\ files = <<>>
    /\ fileIdx = 1
    /\ \E counts \in BlameMaps :
          /\ blameInfo = AsBlameMap(counts)
          /\ ret = GitHubSuccessReturn(AsBlameMap(counts))
          /\ encounter \in Orderings(DOMAIN counts)
    /\ calls = 0
    /\ prev = NoPrev
    /\ output = NoOutput
    /\ NoRepos
    /\ NoPulls
    /\ NoServer

NextFormat == PrintBlameInfo

SpecFormat == InitFormat /\ [][NextFormat]_vars

(***************************************************************************)
(* ListRepositories.  A full name is a string, kept as the sequence of its *)
(* characters; < on strings is Go's byte-wise order.                       *)
(***************************************************************************)
\* the full names "a", "aa", "ab", "b", "ba"
RepoNames ==
    { <<"a">>, <<"a", "a">>, <<"a", "b">>, <<"b">>, <<"b", "a">> }

\* the byte of a character
Byte(c) ==
    CASE c = "/" -> 47
      [] c = "a" -> 97
      [] c = "b" -> 98
      [] c = "g" -> 103
      [] c = "o" -> 111
      [] c = "r" -> 114
      [] c = "s" -> 115

\* string a < string b
RECURSIVE StringLess(_, _)
StringLess(a, b) ==
    IF b = <<>> THEN FALSE
    ELSE IF a = <<>> THEN TRUE
    ELSE IF Byte(Head(a)) < Byte(Head(b)) THEN TRUE
    ELSE IF Byte(Head(a)) > Byte(Head(b)) THEN FALSE
    ELSE StringLess(Tail(a), Tail(b))

\* repos[i].GetFullName() < repos[j].GetFullName()
FullNameLess(S) == {xy \in S \X S : StringLess(xy[1].full_name, xy[2].full_name)}

\* ListOptions{PerPage: 100}: the listing calls ask for pages of 100
PerPage == 100

\* the one page the remote answers a listing call with
ListingPage(all) == SubSeq(all, 1, Min(Len(all), PerPage))

\* the remote's repositories: distinct full names in any order
RemoteRepoLists ==
    {r \in SeqsUpTo([full_name : RepoNames], MaxRepos) :
        \A i, j \in DOMAIN r : i # j => r[i].full_name # r[j].full_name}

\* the Repository values appended for the remote's entries, in their order
\* (Name and URL are copied like FullName and left out)
AsRepositories(repos, p) ==
    [i \in DOMAIN repos |-> [FullName |-> repos[i].full_name, Provider |-> p]]

\* (result, nil): result stays a nil slice when nothing was appended
ListReturn(list) == [isNil |-> list = <<>>, list |-> list, err |-> FALSE]

\* (nil, err)
ListError == [isNil |-> TRUE, list |-> <<>>, err |-> TRUE]

GitHubListRepositories ==
    /\ provider = "github"
    /\ repoCalls' = 1
    /\ \/ repoRet' = ListError
       \/ \E sorted \in SortSlice(ListingPage(repoRemote),
                                 FullNameLess(Range(repoRemote))) :
             repoRet' = ListReturn(AsRepositories(sorted, "github"))
    /\ UNCHANGED <<provider, repoRemote, blameVars, pullVars,
                   serverVars, cliVars>>

GitLabListRepositories ==
    /\ provider = "gitlab"
    /\ repoCalls' = 1
    /\ \/ repoRet' = ListError
       \/ repoRet' = ListReturn(AsRepositories(ListingPage(repoRemote),
                                               "gitlab"))
    /\ UNCHANGED <<provider, repoRemote, blameVars, pullVars,
                   serverVars, cliVars>>

InitRepos ==
    /\ NoCli
    /\ provider \in Providers
    /\ histories = [f \in Files |-> <<>>]
    /\ BlameIdle
    /\ repoRemote \in RemoteRepoLists
    /\ repoRet = [isNil |-> TRUE, list |-> <<>>, err |-> FALSE]
    /\ repoCalls = 0
    /\ NoPulls
    /\ NoServer

NextRepos == GitHubListRepositories \/ GitLabListRepositories

SpecRepos == InitRepos /\ [][NextRepos]_vars

(***************************************************************************)
(* ListPullRequests.  The remote keeps change requests in every state and  *)
(* answers a listing call with those whose state is the one the query      *)
(* names (all of them when the query names "all").                         *)
(***************************************************************************)
PRNumbers == {7, 9}

\* the states a provider reports for a change request
RemoteStates(p) ==
    IF p = "github" THEN {"open", "closed"}
    ELSE {"opened", "closed", "merged"}

\* the remote's change requests of a provider: distinct numbers, any order
RemotePRLists(p) ==
    {r \in SeqsUpTo([number : PRNumbers, state : RemoteStates(p)],
                    Cardinality(PRNumbers)) :
        \A i, j \in DOMAIN r : i # j => r[i].number # r[j].number}

ChangedFileLists == { <<>>, <<"a.go">>, <<"a.go", "b.go">> }

StateMatches(pr, queryState) == queryState = "all" \/ pr.state = queryState

RECURSIVE SelectState(_, _)
SelectState(all, queryState) ==
    IF all = <<>> THEN <<>>
    ELSE IF StateMatches(Head(all), queryState)
         THEN <<Head(all)>> \o SelectState(Tail(all), queryState)
         ELSE SelectState(Tail(all), queryState)

RemoteListPRs(queryState) == ListingPage(SelectState(prRemote, queryState))

\* PullRequestListOptions{State: "open"}
GitHubQueryState == "open"

\* ListProjectMergeRequestsOptions{State: "opened"}
GitLabQueryStateAll == "all"
GitLabQueryState == "opened"

\* the PullRequest appended for one listed change request and its files
\* (Title and URL are copied like Number and left out)
AsPullRequest(pr, p, changed) ==
    [Number |-> pr.number, State |-> pr.state, Provider |-> p,
     ChangedFiles |-> changed]

ListPullRequestsBegin ==
    /\ prPc \in {"idle", "done"}
    /\ prIdx' = 1
    /\ prResult' = <<>>
    /\ prCalls' = 1
    /\ UNCHANGED <<provider, prRemote, prFiles, blameVars, repoVars,
                   serverVars, cliVars>>

\* the listing call succeeds
GitHubListPRs ==
    /\ provider = "github"
    /\ GitHubRemoteHas(splitRepoFullName(repoFullName))
    /\ ListPullRequestsBegin
    /\ prs' = RemoteListPRs(GitHubQueryState)
    /\ prPc' = "loop"
    /\ prRet' = [isNil |-> TRUE, list |-> <<>>, err |-> FALSE]

\* the listing call fails
GitHubListPRsError ==
    /\ provider = "github"
    /\ ListPullRequestsBegin
    /\ prs' = <<>>
    /\ prPc' = "done"
    /\ prRet' = ListError

\* one iteration of the loop whose ListFiles call succeeds
GitHubPRFilesAccumulate ==
    /\ provider = "github"
    /\ GitHubRemoteHas(splitRepoFullName(repoFullName))
    /\ prPc = "loop"
    /\ prIdx <= Len(prs)
    /\ LET before == IF prResult = <<>> THEN <<>>
                     ELSE prResult[Len(prResult)].ChangedFiles
       IN  prResult' = Append(prResult,
                              AsPullRequest(prs[prIdx], "github",
                                            before \o prFiles[prs[prIdx].number]))
    /\ prIdx' = prIdx + 1
    /\ prCalls' = prCalls + 1
    /\ UNCHANGED <<provider, prRemote, prFiles, prPc, prs, prRet, blameVars,
                   repoVars, serverVars, cliVars>>
GitHubPRFiles ==
    /\ provider = "github"
    /\ GitHubRemoteHas(splitRepoFullName(repoFullName))
    /\ prPc = "loop"
    /\ prIdx <= Len(prs)
    /\ prResult' = Append(prResult,
                          AsPullRequest(prs[prIdx], "github",
                                        prFiles[prs[prIdx].number]))
    /\ prIdx' = prIdx + 1
    /\ prCalls' = prCalls + 1
    /\ UNCHANGED <<provider, prRemote, prFiles, prPc, prs, prRet, blameVars,
                   repoVars, serverVars, cliVars>>

\* one iteration of the loop whose ListFiles call fails
GitHubPRFilesError ==
    /\ provider = "github"
    /\ prPc = "loop"
    /\ prIdx <= Len(prs)
    /\ prCalls' = prCalls + 1
    /\ prRet' = ListError
    /\ prPc' = "done"
    /\ UNCHANGED <<provider, prRemote, prFiles, prs, prIdx, prResult,
                   blameVars, repoVars, serverVars, cliVars>>

\* the loop is over
GitHubPRReturn ==
    /\ provider = "github"
    /\ prPc = "loop"
    /\ prIdx > Len(prs)
    /\ prRet' = ListReturn(prResult)
    /\ prPc' = "done"
    /\ UNCHANGED <<provider, prRemote, prFiles, prs, prIdx, prResult, prCalls,
                   blameVars, repoVars, serverVars, cliVars>>

GitHubListPullRequests ==
    \/ GitHubListPRs \/ GitHubListPRsError
    \/ GitHubPRFiles \/ GitHubPRFilesError \/ GitHubPRReturn

GitLabListMRs ==
    /\ provider = "gitlab"
    /\ GitLabRemoteHas(repoFullName)
    /\ ListPullRequestsBegin
    /\ prs' = RemoteListPRs(GitLabQueryState)
    /\ prPc' = "loop"
    /\ prRet' = [isNil |-> TRUE, list |-> <<>>, err |-> FALSE]

GitLabListMRsError ==
    /\ provider = "gitlab"
    /\ ListPullRequestsBegin
    /\ prs' = <<>>
    /\ prPc' = "done"
    /\ prRet' = ListError

\* one iteration of the loop whose GetMergeRequestChanges call succeeds
GitLabMRChanges ==
    /\ provider = "gitlab"
    /\ GitLabRemoteHas(repoFullName)
    /\ prPc = "loop"
    /\ prIdx <= Len(prs)
    /\ prResult' = Append(prResult,
                          AsPullRequest(prs[prIdx], "gitlab",
                                        prFiles[prs[prIdx].number]))
    /\ prIdx' = prIdx + 1
    /\ prCalls' = prCalls + 1
    /\ UNCHANGED <<provider, prRemote, prFiles, prPc, prs, prRet, blameVars,
                   repoVars, serverVars, cliVars>>

GitLabMRChangesError ==
    /\ provider = "gitlab"
    /\ prPc = "loop"
    /\ prIdx <= Len(prs)
    /\ prCalls' = prCalls + 1
    /\ prRet' = ListError
    /\ prPc' = "done"
    /\ UNCHANGED <<provider, prRemote, prFiles, prs, prIdx, prResult,
                   blameVars, repoVars, serverVars, cliVars>>

GitLabMRReturn ==
    /\ provider = "gitlab"
    /\ prPc = "loop"
    /\ prIdx > Len(prs)
    /\ prRet' = ListReturn(prResult)
    /\ prPc' = "done"
    /\ UNCHANGED <<provider, prRemote, prFiles, prs, prIdx, prResult, prCalls,
                   blameVars, repoVars, serverVars, cliVars>>

GitLabListPullRequests ==
    \/ GitLabListMRs \/ GitLabListMRsError
    \/ GitLabMRChanges \/ GitLabMRChangesError \/ GitLabMRReturn

InitPulls ==
    /\ NoCli
    /\ provider \in Providers
    /\ histories = [f \in Files |-> <<>>]
    /\ BlameIdle
    /\ NoRepos
    /\ prRemote \in RemotePRLists(provider)
    /\ prFiles \in [PRNumbers -> ChangedFileLists]
    /\ prPc = "idle"
    /\ prs = <<>>
    /\ prIdx = 1
    /\ prResult = <<>>
    /\ prRet = [isNil |-> TRUE, list |-> <<>>, err |-> FALSE]
    /\ prCalls = 0
    /\ ServerIdle
    /\ repoFullName \in RepoFullNames

NextPulls == GitHubListPullRequests \/ GitLabListPullRequests

SpecPulls == InitPulls /\ [][NextPulls]_vars

(***************************************************************************)
(* The HTTP server.  A request carries its method, its Content-Type and    *)
(* its body; the body is unreadable, not the JSON of an AnalysisRequest,   *)
(* or an AnalysisRequest with a name and the four entries of its arguments *)
(* object, each absent, a string, a number or a JSON value of another      *)
(* type.  A number is kept in halves (1 is 0.5, 14 is 7), as JSON numbers  *)
(* decode to float64.                                                      *)
(***************************************************************************)
StatusOK == 200
StatusBadRequest == 400
StatusUnauthorized == 401
StatusNotFound == 404
StatusMethodNotAllowed == 405
StatusUnsupportedMediaType == 415
StatusInternalServerError == 500

ArgString(v) == [kind |-> "string", val |-> v]

ArgNumber(halves) == [kind |-> "number", val |-> halves]

\* a JSON value that is neither a string nor a number, nor absent
ArgOther(zero) == [kind |-> "other", val |-> zero]

MessageNames == {"git-blame", "git-log", "git-diff"}

ProviderArgs ==
    {Missing(""), ArgOther(""), ArgString("github"), ArgString("gitlab"),
     ArgString("bitbucket")}

TokenArgs ==
    {Missing(""), ArgOther(""), ArgString(""), ArgString("good"),
     ArgString("bad")}

RepositoryArgs ==
    {Missing(<<>>), ArgOther(<<>>), ArgString(<<>>),
     ArgString(<<"o", "/", "r">>)}

\* -1, 0, 0.5, 7, 7.5 and 99
PullRequestNumbers == {0 - 2, 0, 1, 14, 15, 198}

PullRequestArgs ==
    {Missing(0), ArgOther(0)} \cup {ArgNumber(h) : h \in PullRequestNumbers}

JSONBody(name, prov, tok, repository, pr) ==
    [kind |-> "json", name |-> name, provider |-> prov, token |-> tok,
     repository |-> repository, pullRequest |-> pr]

Bodies(providerArgs, tokenArgs, repositoryArgs, pullRequestArgs) ==
    {JSONBody(n, a, t, r, q) :
        n \in MessageNames, a \in providerArgs, t \in tokenArgs,
        r \in repositoryArgs, q \in pullRequestArgs}

UnreadableBody == [NoBody EXCEPT !.kind = "unreadable"]

UnparsableBody == [NoBody EXCEPT !.kind = "unparsable"]

\* int(num) of a float64: the fraction is discarded (truncation toward zero)
IntOfKeepFraction(halves) == IF halves > 0 THEN (halves + 1) \div 2 ELSE 0
IntOf(halves) ==
    IF halves >= 0 THEN halves \div 2 ELSE 0 - ((0 - halves) \div 2)

\* http.Error(w, text, code): a plain-text body under the status code
HttpError(text, code) ==
    [status |-> code, written |-> TRUE, kind |-> "text", Status |-> "",
     Message |-> "", Error |-> text, Data |-> <<>>, prompts |-> <<>>]

\* sendErrorResponse(w, errorMsg, statusCode)
sendErrorResponse(errorMsg, statusCode) ==
    [status |-> statusCode, written |-> TRUE, kind |-> "json",
     Status |-> "error", Message |-> "", Error |-> errorMsg, Data |-> <<>>,
     prompts |-> <<>>]

\* return nil, fmt.Errorf(err) after w was written
Rejected(w, err) == [req |-> NoReq, err |-> err, w |-> w]

\* return &req, nil: nothing was written to w
Accepted(b) ==
    [req |-> [isNil |-> FALSE, Name |-> b.name, provider |-> b.provider.val,
              token |-> b.token.val, repository |-> b.repository.val,
              pullRequest |-> IntOf(b.pullRequest.val)],
     err |-> "",
     w |-> NoResponse]

\* the checks on the extracted values: token, repository, pullRequest
ValidateRequiredRepositoryFirst(b) ==
    IF b.repository.val = <<>>
    THEN Rejected(sendErrorResponse("Repository is required",
                                    StatusBadRequest),
                  "repository is required")
    ELSE IF b.token.val = ""
    THEN Rejected(sendErrorResponse("Token is required", StatusBadRequest),
                  "token is required")
    ELSE IF IntOf(b.pullRequest.val) <= 0
    THEN Rejected(sendErrorResponse("Pull request number must be positive",
                                    StatusBadRequest),
                  "pull request number must be positive")
    ELSE Accepted(b)
ValidateRequired(b) ==
    IF b.token.val = ""
    THEN Rejected(sendErrorResponse("Token is required", StatusBadRequest),
                  "token is required")
    ELSE IF b.repository.val = <<>>
    THEN Rejected(sendErrorResponse("Repository is required",
                                    StatusBadRequest),
                  "repository is required")
    ELSE IF IntOf(b.pullRequest.val) <= 0
    THEN Rejected(sendErrorResponse("Pull request number must be positive",
                                    StatusBadRequest),
                  "pull request number must be positive")
    ELSE Accepted(b)

\* the presence and the type of one entry of the arguments object
ArgumentError(arg, wanted, required, badFormat, requiredErr, formatErr) ==
    IF arg.kind = "missing"
    THEN Rejected(sendErrorResponse(required, StatusBadRequest), requiredErr)
    ELSE IF arg.kind # wanted
    THEN Rejected(sendErrorResponse(badFormat, StatusBadRequest), formatErr)
    ELSE Rejected(NoResponse, "")

\* ProviderType.IsValid
IsValid(providerType) == providerType \in {"github", "gitlab"}

\* the checks on the parsed AnalysisRequest, in the order of the code
ValidateArguments(b) ==
    LET prov == ArgumentError(b.provider, "string", "Provider is required",
                              "Provider type must be a string",
                              "provider is required",
                              "invalid provider type format")
        tok == ArgumentError(b.token, "string", "Token is required",
                             "Token must be a string", "token is required",
                             "invalid token format")
        repository == ArgumentError(b.repository, "string",
                                    "Repository is required",
                                    "Repository must be a string",
                                    "repository is required",
                                    "invalid repository format")
        pr == ArgumentError(b.pullRequest, "number",
                            "Pull request is required",
                            "Pull request must be a number",
                            "pull request is required",
                            "invalid pull request format")
    IN  IF b.name # "git-blame" /\ b.name # "git-log"
        THEN Rejected(sendErrorResponse(
                          "Invalid name. Must be one of: 'git-blame', 'git-log'",
                          StatusBadRequest),
                      "invalid name")
        ELSE IF prov.err # "" THEN prov
        ELSE IF ~IsValid(b.provider.val)
        THEN Rejected(sendErrorResponse(
                          "Invalid provider type. Must be one of: github, gitlab",
                          StatusBadRequest),
                      "invalid provider type")
        ELSE IF tok.err # "" THEN tok
        ELSE IF repository.err # "" THEN repository
        ELSE IF pr.err # "" THEN pr
        ELSE ValidateRequired(b)

\* Server.validate(w, r): the request it returns, the error, and w
validate(r) ==
    IF r.method # "POST"
    THEN Rejected(HttpError("Method not allowed", StatusMethodNotAllowed),
                  "method not allowed")
    ELSE IF r.contentType # "application/json"
    THEN Rejected(HttpError("Content-Type must be application/json",
                            StatusUnsupportedMediaType),
                  "invalid content type")
    ELSE IF r.body.kind = "unreadable"
    THEN Rejected(HttpError("Error reading request body", StatusBadRequest),
                  "error reading request body")
    ELSE IF r.body.kind # "json"
    THEN Rejected(HttpError("Invalid JSON format", StatusBadRequest),
                  "invalid JSON format")
    ELSE ValidateArguments(r.body)

(***************************************************************************)
(* validate called on its own, on any request to /messages.                *)
(***************************************************************************)
Methods == {"POST", "GET"}

ContentTypes == {"application/json", "text/plain"}

MessageRequests(bodies) ==
    [path : {"/messages"}, method : Methods, contentType : ContentTypes,
     body : bodies]

ValidateRequests ==
    MessageRequests({UnreadableBody, UnparsableBody}
                    \cup Bodies(ProviderArgs, TokenArgs, RepositoryArgs,
                                PullRequestArgs))

CallValidate ==
    /\ srvPc = "idle"
    /\ request.path = "/messages"
    /\ LET v == validate(request)
       IN  /\ req' = v.req
           /\ valErr' = v.err
           /\ response' = v.w
    /\ srvPc' = "validated"
    /\ writes' = IF validate(request).w.written THEN writes + 1 ELSE writes
    /\ UNCHANGED <<provider, blameVars, repoVars, pullVars, cliVars,
                   repoFullName,
                   request, authCalls, selectedPR, logStep,
                   cwd>>

InitValidate ==
    /\ NoCli
    /\ provider = "github"
    /\ histories = [f \in Files |-> <<>>]
    /\ BlameIdle
    /\ NoRepos
    /\ NoPulls
    /\ request \in ValidateRequests
    /\ srvPc = "idle"
    /\ req = NoReq
    /\ valErr = ""
    /\ response = NoResponse
    /\ authCalls = 0
    /\ selectedPR = NoPR
    /\ logStep = 0
    /\ writes = 0
    /\ cwd = StartDir
    /\ repoFullName = <<>>

NextValidate == CallValidate

SpecValidate == InitValidate /\ [][NextValidate]_vars

(***************************************************************************)
(* handleMessages: validate, authenticate, list the pull requests, find    *)
(* the requested one, then answer git-blame from GetBlameInfo or git-log   *)
(* from the external tools.  One step per remote call or external tool;    *)
(* the client calls are the steps of ListPullRequests and GetBlameInfo.    *)
(***************************************************************************)
\* validate, and the early return on its error
HandleMessagesValidate ==
    /\ srvPc = "idle"
    /\ request.path = "/messages"
    /\ LET v == validate(request)
       IN  /\ req' = v.req
           /\ valErr' = v.err
           /\ response' = v.w
           /\ srvPc' = IF v.err # "" THEN "done" ELSE "auth"
    /\ writes' = IF validate(request).w.written THEN writes + 1 ELSE writes
    /\ UNCHANGED <<provider, blameVars, repoVars, pullVars, cliVars,
                   repoFullName,
                   request, authCalls, selectedPR, logStep,
                   cwd>>

\* the credential gate of the remote accepts this token only
AcceptedToken == "good"

\* where the handler goes on after Authenticate returned an error
AfterAuthenticateErrorFallThrough == "list"
AfterAuthenticateError == "done"

\* where NewGitHubAuth(token).Authenticate() returns an error: the call of
\* Users.Get failed, for the token or for the transport
GitHubAuthenticateError ==
    /\ srvPc = "auth"
    /\ req.provider = "github"
    /\ authCalls' = authCalls + 1
    /\ response' = sendErrorResponse("GitHub authentication failed",
                                     StatusUnauthorized)
    /\ srvPc' = AfterAuthenticateError
    /\ writes' = writes + 1
    /\ UNCHANGED <<provider, blameVars, repoVars, pullVars, cliVars,
                   repoFullName,
                   request, req, valErr, selectedPR, logStep,
                   cwd>>

\* Authenticate returns nil; the client is made and is about to be called
\* with the repository of the request
GitHubAuthenticate ==
    /\ srvPc = "auth"
    /\ req.provider = "github"
    /\ req.token = AcceptedToken
    /\ authCalls' = authCalls + 1
    /\ repoFullName' = req.repository
    /\ srvPc' = "list"
    /\ UNCHANGED <<provider, blameVars, repoVars, pullVars, cliVars,
                   request, req,
                   valErr, response, selectedPR, logStep,
                   writes, cwd>>

GitLabAuthenticateError ==
    /\ srvPc = "auth"
    /\ req.provider = "gitlab"
    /\ authCalls' = authCalls + 1
    /\ response' = sendErrorResponse("GitLab authentication failed",
                                     StatusUnauthorized)
    /\ srvPc' = AfterAuthenticateError
    /\ writes' = writes + 1
    /\ UNCHANGED <<provider, blameVars, repoVars, pullVars, cliVars,
                   repoFullName,
                   request, req, valErr, selectedPR, logStep,
                   cwd>>

GitLabAuthenticate ==
    /\ srvPc = "auth"
    /\ req.provider = "gitlab"
    /\ req.token = AcceptedToken
    /\ authCalls' = authCalls + 1
    /\ repoFullName' = req.repository
    /\ srvPc' = "list"
    /\ UNCHANGED <<provider, blameVars, repoVars, pullVars, cliVars,
                   request, req,
                   valErr, response, selectedPR, logStep,
                   writes, cwd>>

\* repoClient.ListPullRequests(repository), step by step
HandleMessagesListPullRequests ==
    /\ srvPc = "list"
    /\ prPc # "done"
    /\ GitHubListPullRequests \/ GitLabListPullRequests

\* the loop that looks for the requested number: the first entry with it
FindPullRequestOrFirst(list, number) ==
    IF list = <<>> THEN NoPR
    ELSE LET hits == {i \in DOMAIN list : list[i].Number = number}
             k == IF hits = {} THEN 1
                  ELSE CHOOSE i \in hits : \A j \in hits : i <= j
         IN  [isNil |-> FALSE, Number |-> list[k].Number,
              ChangedFiles |-> list[k].ChangedFiles]
FindPullRequest(list, number) ==
    LET hits == {i \in DOMAIN list : list[i].Number = number}
    IN  IF hits = {} THEN NoPR
        ELSE LET k == CHOOSE i \in hits : \A j \in hits : i <= j
             IN  [isNil |-> FALSE, Number |-> list[k].Number,
                  ChangedFiles |-> list[k].ChangedFiles]

\* the answer to an error of ListPullRequests
ListFailedResponseNotFound ==
    sendErrorResponse("Failed to get pull requests", StatusNotFound)
ListFailedResponse ==
    sendErrorResponse("Failed to get pull requests",
                      StatusInternalServerError)

\* ListPullRequests has returned: its error, or the search of the number
HandleMessagesSelect ==
    /\ srvPc = "list"
    /\ prPc = "done"
    /\ IF prRet.err
       THEN /\ response' = ListFailedResponse
            /\ srvPc' = "done"
            /\ UNCHANGED selectedPR
       ELSE LET found == FindPullRequest(prRet.list, req.pullRequest)
            IN  /\ selectedPR' = found
                /\ IF found.isNil
                   THEN /\ response' = sendErrorResponse(
                                           "Pull request not found",
                                           StatusNotFound)
                        /\ srvPc' = "done"
                   ELSE /\ UNCHANGED response
                        /\ srvPc' = IF req.Name = "git-blame" THEN "blame"
                                    ELSE "log"
    /\ writes' = IF response' # response THEN writes + 1 ELSE writes
    /\ UNCHANGED <<provider, blameVars, repoVars, pullVars, cliVars,
                   repoFullName,
                   request, req, valErr, authCalls, logStep,
                   cwd>>

\* repoClient.GetBlameInfo(repository, pullRequest, selectedPR.ChangedFiles),
\* step by step
HandleMessagesGetBlameInfo ==
    /\ srvPc = "blame"
    /\ pc # "done"
    /\ GitHubGetBlameInfo \/ GitLabGetBlameInfo
    /\ pc = "idle" => files' = selectedPR.ChangedFiles

RECURSIVE Digits(_)
\* fmt.Sprintf("%d", n) of a number that is not negative
Digits(n) ==
    IF n < 10 THEN <<n>> ELSE Digits(n \div 10) \o <<n % 10>>

\* blameData[info.User] = fmt.Sprintf("%d", info.Lines), over the map
BlameData(m) ==
    [u \in {m[k].User : k \in DOMAIN m} |->
        Digits(m[CHOOSE k \in DOMAIN m : m[k].User = u].Lines)]

\* the 200 response with Status "success"
SuccessResponse(message, data) ==
    [status |-> StatusOK, written |-> TRUE, kind |-> "json",
     Status |-> "success", Message |-> message, Error |-> "", Data |-> data,
     prompts |-> <<>>]

\* GetBlameInfo has returned: its error, or the blame data
HandleMessagesBlameResponse ==
    /\ srvPc = "blame"
    /\ pc = "done"
    /\ response' =
          IF ret.err
          THEN sendErrorResponse("Failed to get blame information",
                                 StatusInternalServerError)
          ELSE SuccessResponse("Blame analysis completed", BlameData(ret.m))
    /\ srvPc' = "done"
    /\ writes' = writes + 1
    /\ UNCHANGED <<provider, blameVars, repoVars, pullVars, cliVars,
                   repoFullName,
                   request, req, valErr, authCalls, selectedPR, logStep,
                   cwd>>

\* the external steps of the git-log branch, each with the error it reports
GitLogSteps ==
    << "Failed to create temporary directory", "Failed to clone repository",
       "Failed to change directory", "Failed to run git log",
       "Failed to write log file", "Failed to run code-maat" >>

\* the step that is os.Chdir(tempDir)
ChdirStep == 3

\* the rows parsed from the output of code-maat
CsvData == [k \in {"header"} |-> "entity,fractal-value,total-revs"]

\* the next external step succeeds; after the last one the CSV is answered
GitLogStep ==
    /\ srvPc = "log"
    /\ logStep < Len(GitLogSteps)
    /\ logStep' = logStep + 1
    /\ cwd' = IF logStep + 1 = ChdirStep THEN TempDir ELSE cwd
    /\ IF logStep + 1 = Len(GitLogSteps)
       THEN /\ response' = SuccessResponse("Git log analysis completed",
                                           CsvData)
            /\ writes' = writes + 1
            /\ srvPc' = "done"
       ELSE UNCHANGED <<response, writes, srvPc>>
    /\ UNCHANGED <<provider, blameVars, repoVars, pullVars, cliVars,
                   repoFullName, request, req, valErr, authCalls, selectedPR>>

\* the next external step fails
GitLogStepErrorNoReturn ==
    /\ srvPc = "log"
    /\ logStep < Len(GitLogSteps)
    /\ response' = sendErrorResponse(GitLogSteps[logStep + 1],
                                     StatusInternalServerError)
    /\ writes' = writes + 1
    /\ logStep' = logStep + 1
    /\ srvPc' = IF logStep + 1 = Len(GitLogSteps) THEN "done" ELSE "log"
    /\ UNCHANGED <<provider, blameVars, repoVars, pullVars, cliVars,
                   repoFullName, request, req, valErr, authCalls, selectedPR,
                   cwd>>
GitLogStepError ==
    /\ srvPc = "log"
    /\ logStep < Len(GitLogSteps)
    /\ response' = sendErrorResponse(GitLogSteps[logStep + 1],
                                     StatusInternalServerError)
    /\ srvPc' = "done"
    /\ writes' = writes + 1
    /\ UNCHANGED <<provider, blameVars, repoVars, pullVars, cliVars,
                   repoFullName,
                   request, req, valErr, authCalls, selectedPR, logStep,
                   cwd>>

handleMessages ==
    \/ HandleMessagesValidate
    \/ GitHubAuthenticate \/ GitHubAuthenticateError
    \/ GitLabAuthenticate \/ GitLabAuthenticateError
    \/ HandleMessagesListPullRequests
    \/ HandleMessagesSelect
    \/ HandleMessagesGetBlameInfo
    \/ HandleMessagesBlameResponse
    \/ GitLogStep \/ GitLogStepError

(***************************************************************************)
(* handlePrompts.                                                          *)
(***************************************************************************)
PromptArguments == <<"provider", "token", "repository", "pullRequest">>

Prompt(name) == [Name |-> name, Arguments |-> PromptArguments]

PromptsLogFirst == <<Prompt("git-log"), Prompt("git-blame")>>
Prompts == <<Prompt("git-blame"), Prompt("git-log")>>

handlePrompts ==
    /\ srvPc = "idle"
    /\ request.path = "/prompts"
    /\ response' =
          IF request.method # "GET"
          THEN HttpError("Method not allowed", StatusMethodNotAllowed)
          ELSE [status |-> StatusOK, written |-> TRUE, kind |-> "json",
                Status |-> "", Message |-> "", Error |-> "", Data |-> <<>>,
                prompts |-> Prompts]
    /\ srvPc' = "done"
    /\ writes' = writes + 1
    /\ UNCHANGED <<provider, blameVars, repoVars, pullVars, cliVars,
                   repoFullName,
                   request, req, valErr, authCalls, selectedPR, logStep,
                   cwd>>

(***************************************************************************)
(* The server specification: one request served against one remote.        *)
(***************************************************************************)
\* the messages whose arguments are all present and of their types
ServerBodies ==
    Bodies({ArgString("github"), ArgString("gitlab")},
           {ArgString("good"), ArgString("bad")},
           {ArgString(<<"o", "/", "r">>), ArgString(<<"g", "/", "s", "/", "r">>),
            ArgString(<<"o", "r">>)},
           {ArgNumber(14), ArgNumber(18), ArgNumber(198)})

\* those messages as POST of JSON, a body that is no JSON under any method
\* and Content-Type, and the requests of the prompt list
ServerRequests ==
    {r \in MessageRequests(ServerBodies \cup {UnparsableBody}) :
        \/ r.body = UnparsableBody
        \/ r.method = "POST" /\ r.contentType = "application/json"}
    \cup [path : {"/prompts"}, method : Methods, contentType : {""},
          body : {NoBody}]

\* the provider a request names, GitHub when it names none
RequestProvider(r) ==
    IF r.body.provider.val \in Providers THEN r.body.provider.val
    ELSE "github"

\* the histories of the remote: none, or two commits of alice on a.go and
\* one of bob on b.go
ServerHistories ==
    {h \in RepoContents(NamedCommitTypes) :
        \/ \A f \in Files : h[f] = <<>>
        \/ /\ Len(h["a.go"]) = 2
           /\ \A i \in DOMAIN h["a.go"] : h["a.go"][i].name = "alice"
           /\ Len(h["b.go"]) = 1
           /\ h["b.go"][1].name = "bob"}

ServerChangedFiles ==
    {pf \in [PRNumbers -> ChangedFileLists] :
        pf[7] # <<>> /\ pf[9] # <<"a.go">>}

InitServer ==
    /\ NoCli
    /\ request \in ServerRequests
    /\ provider = RequestProvider(request)
    /\ histories \in ServerHistories
    /\ BlameIdle
    /\ NoRepos
    /\ prRemote \in RemotePRLists(provider)
    /\ prFiles \in ServerChangedFiles
    /\ prPc = "idle"
    /\ prs = <<>>
    /\ prIdx = 1
    /\ prResult = <<>>
    /\ prRet = [isNil |-> TRUE, list |-> <<>>, err |-> FALSE]
    /\ prCalls = 0
    /\ srvPc = "idle"
    /\ req = NoReq
    /\ valErr = ""
    /\ response = NoResponse
    /\ authCalls = 0
    /\ selectedPR = NoPR
    /\ logStep = 0
    /\ writes = 0
    /\ cwd = StartDir
    /\ repoFullName = <<>>

NextServer == handleMessages \/ handlePrompts

SpecServer == InitServer /\ [][NextServer]_vars

(***************************************************************************)
(* The command line (cmd/cli/root.go): runAnalysis authenticates, lists    *)
(* the repositories, reads the user's choice of one, lists its pull        *)
(* requests, reads the choice of one, and runs the blame or the log        *)
(* analysis on it.  One step per remote call, user input or external tool; *)
(* the client calls are the steps of the clients above.                    *)
(***************************************************************************)
AnalysisTypes == {"blame", "log"}

\* the --provider values: the two providers and one that is not supported
CliProviders == Providers \cup {"bitbucket"}

\* return nil, return err, and a run-time panic
ReturnedNil == "nil"

ReturnedError == "error"

Panicked == "panic"

\* splitRepoFullName of package main: it returns an error for a name that
\* does not split into two parts
mainSplitRepoFullName(fullName) ==
    LET parts == Split(fullName, "/")
    IN  IF Len(parts) # 2
        THEN [owner |-> <<>>, repo |-> <<>>, err |-> TRUE]
        ELSE [owner |-> parts[1], repo |-> parts[2], err |-> FALSE]

\* runAnalysis returns, or the program stops in a panic
RunAnalysisEnd(how) ==
    /\ cliPc' = "returned"
    /\ cliRet' = how

\* the switch on the provider: Authenticate of the provider, its error
\* returned, the client made of its client; any other provider is an error
RunAnalysisAuthenticate ==
    /\ cliPc = "start"
    /\ \/ /\ provider \in Providers
          /\ cliPc' = "repos"
          /\ UNCHANGED cliRet
       \/ RunAnalysisEnd(ReturnedError)
    /\ UNCHANGED <<provider, blameVars, repoVars, pullVars, serverVars,
                   analysisType, cacheFile, tokenOp>>

\* repos, err := repoClient.ListRepositories()
RunAnalysisListRepositories ==
    /\ cliPc = "repos"
    /\ repoCalls = 0
    /\ GitHubListRepositories \/ GitLabListRepositories

\* the error of ListRepositories returned, or the user's selection read:
\* a number from 1 to len(repos) selects, anything else is an error
RunAnalysisSelectRepository ==
    /\ cliPc = "repos"
    /\ repoCalls = 1
    /\ IF repoRet.err
       THEN /\ RunAnalysisEnd(ReturnedError)
            /\ UNCHANGED repoFullName
       ELSE \E selection \in 0..(Len(repoRet.list) + 1) :
               IF selection < 1 \/ selection > Len(repoRet.list)
               THEN /\ RunAnalysisEnd(ReturnedError)
                    /\ UNCHANGED repoFullName
               ELSE /\ repoFullName' = repoRet.list[selection].FullName
                    /\ cliPc' = "prs"
                    /\ UNCHANGED cliRet
    /\ UNCHANGED <<provider, blameVars, repoVars, pullVars, request, srvPc,
                   req, valErr, response, authCalls, selectedPR, logStep,
                   analysisType,
                   writes, cwd, cacheFile, tokenOp>>

\* prs, err := repoClient.ListPullRequests(selectedRepo.FullName)
RunAnalysisListPullRequests ==
    /\ cliPc = "prs"
    /\ prPc # "done"
    /\ GitHubListPullRequests \/ GitLabListPullRequests

\* the error of ListPullRequests returned, nil returned when there is no
\* pull request, or the user's selection read
RunAnalysisSelectPullRequest ==
    /\ cliPc = "prs"
    /\ prPc = "done"
    /\ IF prRet.err
       THEN /\ RunAnalysisEnd(ReturnedError)
            /\ UNCHANGED selectedPR
       ELSE IF Len(prRet.list) = 0
       THEN /\ RunAnalysisEnd(ReturnedNil)
            /\ UNCHANGED selectedPR
       ELSE \E selection \in 0..(Len(prRet.list) + 1) :
               IF selection < 1 \/ selection > Len(prRet.list)
               THEN /\ RunAnalysisEnd(ReturnedError)
                    /\ UNCHANGED selectedPR
               ELSE /\ selectedPR' =
                          [isNil |-> FALSE,
                           Number |-> prRet.list[selection].Number,
                           ChangedFiles |->
                               prRet.list[selection].ChangedFiles]
                    /\ cliPc' = analysisType
                    /\ UNCHANGED cliRet
    /\ UNCHANGED <<provider, blameVars, repoVars, pullVars, repoFullName,
                   request, srvPc, req, valErr, response, authCalls, logStep,
                   analysisType,
                   writes, cwd, cacheFile, tokenOp>>

\* case "blame": repoClient.GetBlameInfo(selectedRepo.FullName,
\* selectedPR.Number, selectedPR.ChangedFiles), step by step
RunAnalysisGetBlameInfo ==
    /\ cliPc = "blame"
    /\ pc # "done"
    /\ GitHubGetBlameInfo \/ GitLabGetBlameInfo
    /\ pc = "idle" => files' = selectedPR.ChangedFiles

\* fmt.Println(repo.FormatBlameInfo(blameInfo))
RunAnalysisPrintBlameInfo ==
    /\ cliPc = "blame"
    /\ PrintBlameInfo

\* the error of GetBlameInfo returned, or nil after the ranking was printed
RunAnalysisBlameReturn ==
    /\ cliPc = "blame"
    /\ pc = "done"
    /\ ret.err \/ output.written
    /\ RunAnalysisEnd(IF ret.err THEN ReturnedError ELSE ReturnedNil)
    /\ UNCHANGED <<provider, blameVars, repoVars, pullVars, serverVars,
                   analysisType, cacheFile, tokenOp>>

\* repoClient.(*repo.GitHubClient): the type assertion on the interface
\* value holds for the client of GitHub and panics for any other
AssertGitHubClient(p) == p = "github"

\* the steps of case "log" after the name is split, each with the error it
\* returns; the simple analysis only prints its failure
LogSteps ==
    << [step |-> "GetCommits", fatal |-> TRUE],
       [step |-> "MkdirTemp", fatal |-> TRUE],
       [step |-> "GetCommitDetails", fatal |-> TRUE],
       [step |-> "WriteFile", fatal |-> TRUE],
       [step |-> "Stat code-maat jar", fatal |-> TRUE],
       [step |-> "code-maat summary", fatal |-> FALSE],
       [step |-> "code-maat fragmentation", fatal |-> TRUE] >>

\* the steps that call a method of *repo.GitHubClient
OnGitHubClient == {"GetCommits", "GetCommitDetails"}

\* case "log": the name is split, and its error returned
RunAnalysisLogSplit ==
    /\ cliPc = "log"
    /\ IF mainSplitRepoFullName(repoFullName).err
       THEN RunAnalysisEnd(ReturnedError)
       ELSE /\ cliPc' = "logsteps"
            /\ UNCHANGED cliRet
    /\ UNCHANGED <<provider, blameVars, repoVars, pullVars, serverVars,
                   analysisType, cacheFile, tokenOp>>

\* the next step of case "log" succeeds; nil is returned after the last
RunAnalysisLogStep ==
    /\ cliPc = "logsteps"
    /\ logStep < Len(LogSteps)
    /\ IF /\ LogSteps[logStep + 1].step \in OnGitHubClient
          /\ ~AssertGitHubClient(provider)
       THEN /\ RunAnalysisEnd(Panicked)
            /\ UNCHANGED logStep
       ELSE /\ logStep' = logStep + 1
            /\ IF logStep + 1 = Len(LogSteps)
               THEN RunAnalysisEnd(ReturnedNil)
               ELSE UNCHANGED <<cliPc, cliRet>>
    /\ UNCHANGED <<provider, blameVars, repoVars, pullVars, repoFullName,
                   request, srvPc, req, valErr, response, authCalls,
                   selectedPR, analysisType,
                   writes, cwd, cacheFile, tokenOp>>

\* the next step of case "log" fails
RunAnalysisLogStepError ==
    /\ cliPc = "logsteps"
    /\ logStep < Len(LogSteps)
    /\ IF /\ LogSteps[logStep + 1].step \in OnGitHubClient
          /\ ~AssertGitHubClient(provider)
       THEN /\ RunAnalysisEnd(Panicked)
            /\ UNCHANGED logStep
       ELSE IF LogSteps[logStep + 1].fatal
       THEN /\ RunAnalysisEnd(ReturnedError)
            /\ UNCHANGED logStep
       ELSE /\ logStep' = logStep + 1
            /\ UNCHANGED <<cliPc, cliRet>>
    /\ UNCHANGED <<provider, blameVars, repoVars, pullVars, repoFullName,
                   request, srvPc, req, valErr, response, authCalls,
                   selectedPR, analysisType,
                   writes, cwd, cacheFile, tokenOp>>

runAnalysis ==
    \/ RunAnalysisAuthenticate
    \/ RunAnalysisListRepositories
    \/ RunAnalysisSelectRepository
    \/ RunAnalysisListPullRequests
    \/ RunAnalysisSelectPullRequest
    \/ RunAnalysisGetBlameInfo
    \/ RunAnalysisPrintBlameInfo
    \/ RunAnalysisBlameReturn
    \/ RunAnalysisLogSplit
    \/ RunAnalysisLogStep
    \/ RunAnalysisLogStepError

(***************************************************************************)
(* The command-line specification: one run of the blame or the log         *)
(* command against one remote.                                             *)
(***************************************************************************)
\* the full names of the account's repositories: "o/r" and, in a nested
\* group of GitLab, "g/s/r"
CliRepoNames(p) ==
    IF p = "gitlab"
    THEN { <<"o", "/", "r">>, <<"g", "/", "s", "/", "r">> }
    ELSE { <<"o", "/", "r">> }

CliRepoLists(p) ==
    UNION {{[i \in DOMAIN o |-> [full_name |-> o[i]]] : o \in Orderings(S)} :
              S \in SUBSET CliRepoNames(p)}

InitCli ==
    /\ provider \in CliProviders
    /\ analysisType \in AnalysisTypes
    /\ cliPc = "start"
    /\ cliRet = "none"
    /\ NoTokenCache
    /\ histories \in ServerHistories
    /\ BlameIdle
    /\ repoRemote \in CliRepoLists(provider)
    /\ repoRet = [isNil |-> TRUE, list |-> <<>>, err |-> FALSE]
    /\ repoCalls = 0
    /\ prRemote \in RemotePRLists(provider)
    /\ prFiles \in ServerChangedFiles
    /\ prPc = "idle"
    /\ prs = <<>>
    /\ prIdx = 1
    /\ prResult = <<>>
    /\ prRet = [isNil |-> TRUE, list |-> <<>>, err |-> FALSE]
    /\ prCalls = 0
    /\ ServerIdle
    /\ repoFullName = <<>>

NextCli == runAnalysis

SpecCli == InitCli /\ [][NextCli]_vars

(***************************************************************************)
(* The token cache (pkg/auth): one JSON file with the token of each        *)
(* provider.  A token is the sequence of its characters; the file holds    *)
(* the two tokens as JSON strings, in which a quote and a backslash are    *)
(* escaped by a backslash.                                                 *)
(***************************************************************************)
\* a letter, the quote and the backslash
TokenChars == {"a", "\"", "\\"}

Tokens == SeqsUpTo(TokenChars, MaxTokenLen)

\* the JSON string of a Go string, without the enclosing quotes
RECURSIVE EncodeString(_)
EncodeString(str) ==
    IF str = <<>> THEN <<>>
    ELSE (IF Head(str) \in {"\"", "\\"} THEN <<"\\", Head(str)>>
          ELSE <<Head(str)>>) \o EncodeString(Tail(str))

\* the Go string of a JSON string
RECURSIVE DecodeString(_)
DecodeString(text) ==
    IF text = <<>> THEN <<>>
    ELSE IF Head(text) = "\\" /\ Len(text) >= 2
    THEN <<text[2]>> \o DecodeString(SubSeq(text, 3, Len(text)))
    ELSE <<Head(text)>> \o DecodeString(Tail(text))

\* &TokenCache{}
EmptyTokenCache == [GitHubToken |-> <<>>, GitLabToken |-> <<>>]

\* a file that cannot be read, and a file that is not the JSON of a cache
UnreadableFile == [AbsentFile EXCEPT !.kind = "unreadable"]

CorruptFile == [AbsentFile EXCEPT !.kind = "corrupt"]

\* json.MarshalIndent(cache, "", "  ") written to the file
Marshal(cache) ==
    [kind |-> "json", github_token |-> EncodeString(cache.GitHubToken),
     gitlab_token |-> EncodeString(cache.GitLabToken)]

\* json.Unmarshal(data, &cache)
Unmarshal(file) ==
    [GitHubToken |-> DecodeString(file.github_token),
     GitLabToken |-> DecodeString(file.gitlab_token)]

\* LoadTokens(): the empty cache when there is no file
LoadTokens(file) ==
    IF file.kind = "absent" THEN [cache |-> EmptyTokenCache, err |-> FALSE]
    ELSE IF file.kind = "json" THEN [cache |-> Unmarshal(file), err |-> FALSE]
    ELSE [cache |-> EmptyTokenCache, err |-> TRUE]

\* SaveTokens(cache): what os.WriteFile wrote of the data is all of it, none
\* of it (the file could not be opened), or a part of it
SaveTokens(cache, file, written) ==
    IF written = "all" THEN [file |-> Marshal(cache), err |-> FALSE]
    ELSE IF written = "none" THEN [file |-> file, err |-> TRUE]
    ELSE [file |-> CorruptFile, err |-> TRUE]

\* GetCachedToken(provider)
GetCachedToken(p, file) ==
    LET l == LoadTokens(file)
    IN  IF l.err THEN [token |-> <<>>, err |-> TRUE]
        ELSE IF p = "github"
        THEN [token |-> l.cache.GitHubToken, err |-> FALSE]
        ELSE IF p = "gitlab"
        THEN [token |-> l.cache.GitLabToken, err |-> FALSE]
        ELSE [token |-> <<>>, err |-> TRUE]

\* SaveToken(provider, token)
SaveTokenOtherField(p, token, file, written) ==
    LET l == LoadTokens(file)
    IN  IF l.err THEN [file |-> file, err |-> TRUE]
        ELSE IF p = "github"
        THEN SaveTokens([l.cache EXCEPT !.GitLabToken = token], file, written)
        ELSE IF p = "gitlab"
        THEN SaveTokens([l.cache EXCEPT !.GitHubToken = token], file, written)
        ELSE [file |-> file, err |-> TRUE]
SaveToken(p, token, file, written) ==
    LET l == LoadTokens(file)
    IN  IF l.err THEN [file |-> file, err |-> TRUE]
        ELSE IF p = "github"
        THEN SaveTokens([l.cache EXCEPT !.GitHubToken = token], file, written)
        ELSE IF p = "gitlab"
        THEN SaveTokens([l.cache EXCEPT !.GitLabToken = token], file, written)
        ELSE [file |-> file, err |-> TRUE]

\* a call of SaveToken, on the file the calls before it left
CallSaveToken ==
    /\ tokenOp = NoTokenOp
    /\ \E p \in CliProviders, token \in Tokens,
          written \in {"all", "none", "part"} :
          LET r == SaveToken(p, token, cacheFile, written)
          IN  /\ cacheFile' = r.file
              /\ tokenOp' = [op |-> "SaveToken", provider |-> p,
                             token |-> token, before |-> cacheFile,
                             err |-> r.err, value |-> <<>>]
    /\ UNCHANGED <<provider, blameVars, repoVars, pullVars, serverVars,
                   cliPc, analysisType, cliRet>>

\* a call of GetCachedToken, on the file the calls before it left
CallGetCachedToken ==
    /\ tokenOp = NoTokenOp
    /\ \E p \in CliProviders :
          LET r == GetCachedToken(p, cacheFile)
          IN  tokenOp' = [op |-> "GetCachedToken", provider |-> p,
                          token |-> <<>>, before |-> cacheFile,
                          err |-> r.err, value |-> r.token]
    /\ UNCHANGED <<provider, blameVars, repoVars, pullVars, serverVars,
                   cliPc, analysisType, cliRet, cacheFile>>

\* the cache files the commands find: none, one that cannot be read or
\* parsed, and the files SaveTokens writes
CacheFiles ==
    {AbsentFile, UnreadableFile, CorruptFile}
    \cup {Marshal(c) : c \in [GitHubToken : Tokens, GitLabToken : Tokens]}

InitCache ==
    /\ provider = "github"
    /\ histories = [f \in Files |-> <<>>]
    /\ BlameIdle
    /\ NoRepos
    /\ NoPulls
    /\ NoServer
    /\ cliPc = "idle"
    /\ analysisType = ""
    /\ cliRet = "none"
    /\ cacheFile \in CacheFiles
    /\ tokenOp = NoTokenOp

NextCache == CallSaveToken \/ CallGetCachedToken

SpecCache == InitCache /\ [][NextCache]_vars

(***************************************************************************)
(* Helpers of the properties.                                              *)
(***************************************************************************)
RECURSIVE SumOf(_, _)
\* the sum of f[x] over the finite set S
SumOf(f, S) ==
    IF S = {} THEN 0
    ELSE LET x == CHOOSE y \in S : TRUE
         IN  f[x] + SumOf(f, S \ {x})

\* the sum of the counts of a map
TotalLines(m) == SumOf([a \in DOMAIN m |-> m[a].Lines], DOMAIN m)

\* a GetBlameInfo call has returned a map
Succeeded == pc = "done" /\ ~ret.err

\* a GetBlameInfo call has returned an error
Failed == pc = "done" /\ ret.err

\* the authors of the lines of a printed ranking, top first
RankedUsers == [i \in DOMAIN output.lines |-> output.lines[i][1]]

\* the counts of the lines of a printed ranking, top first
RankedCounts == [i \in DOMAIN output.lines |-> output.lines[i][2]]

\* position of an author in the encounter order
EncounterIndex(a) == CHOOSE i \in DOMAIN encounter : encounter[i] = a

(***************************************************************************)
(* C1: for both providers, a successful ListRepositories returns the       *)
(* repositories sorted ascending by FullName, whatever the remote's order. *)
(***************************************************************************)
C1_SortedByFullName ==
    ~repoRet.err =>
        \A i, j \in DOMAIN repoRet.list :
            i < j => ~StringLess(repoRet.list[j].FullName,
                                 repoRet.list[i].FullName)

(***************************************************************************)
(* C2: GetBlameInfo is all-or-nothing.  A call that ends after a failed    *)
(* history fetch (at the first, a middle or the last file) returns the     *)
(* error and a nil map, never the totals accumulated so far; a map is      *)
(* returned only after the fetch of every file of the list succeeded.      *)
(***************************************************************************)
C2_AllOrNothing ==
    /\ Failed => /\ ret.isNil
                 /\ ret.m = EmptyMap
                 /\ fileIdx <= Len(files)
    /\ Succeeded => /\ ~ret.isNil
                    /\ fileIdx = Len(files) + 1
                    /\ calls = Len(files)

\* the fetch of the middle file of three failed after the first file had
\* put totals into the map
C2_MiddleFetchFailed ==
    /\ Failed
    /\ Len(files) = 3
    /\ fileIdx = 2
    /\ blameInfo # EmptyMap

(***************************************************************************)
(* C3: the end-to-end scenario.  a.go's history has two commits by alice   *)
(* (changed-line weights 3 and 2), b.go's history one commit by bob        *)
(* (weight 4), and GetBlameInfo is called for [a.go, b.go].                *)
(***************************************************************************)
\* the changed-line weights the scenario gives the commits of each history
ScenarioWeights == [f \in Files |-> IF f = "a.go" THEN <<3, 2>> ELSE <<4>>]

C3_Scenario ==
    /\ Succeeded
    /\ files = <<"a.go", "b.go">>
    /\ Len(histories["a.go"]) = 2
    /\ \A i \in DOMAIN histories["a.go"] : histories["a.go"][i].name = "alice"
    /\ Len(histories["b.go"]) = 1
    /\ histories["b.go"][1].name = "bob"

\* the scenario's commits by an author, as (file, position) pairs
ScenarioCommitsBy(a) ==
    {fi \in Files \X (1..MaxCommits) :
        /\ fi[2] \in DOMAIN histories[fi[1]]
        /\ histories[fi[1]][fi[2]].name = a}

WeightedTotal(a) ==
    SumOf([fi \in ScenarioCommitsBy(a) |-> ScenarioWeights[fi[1]][fi[2]]],
          ScenarioCommitsBy(a))

\* C3 as claimed: each (commit, file) pair contributes its changed-line
\* weight, so the scenario returns {alice: 5, bob: 4}
C3_WeightedTotals ==
    C3_Scenario =>
        ret.m = AsBlameMap([a \in {"alice", "bob"} |-> WeightedTotal(a)])

\* C3 as amended: each (commit, file) pair contributes one unit whatever its
\* changed-line weight, so the scenario returns exactly {alice: 2, bob: 1}
C3_UnitTotals ==
    C3_Scenario =>
        ret.m = ("alice" :> [User |-> "alice", Lines |-> 2]
                 @@ "bob" :> [User |-> "bob", Lines |-> 1])

C3_ScenarioReturned == C3_Scenario /\ provider = "github"

(***************************************************************************)
(* C4: ranking stability.  FormatBlameInfo lists authors with equal counts *)
(* in the order in which aggregation first encountered them, in every run. *)
(***************************************************************************)
C4_TiesKeepEncounterOrder ==
    output.written =>
        \A i, j \in DOMAIN output.lines :
            (i < j /\ RankedCounts[i] = RankedCounts[j])
                => EncounterIndex(RankedUsers[i]) < EncounterIndex(RankedUsers[j])

(***************************************************************************)
(* C5: no key of the map GetBlameInfo returns is the empty string; a       *)
(* commit with empty name and e-mail is counted under "Unknown Author".    *)
(***************************************************************************)
C5_NoEmptyAuthorKey == Succeeded => "" \notin DOMAIN ret.m

(***************************************************************************)
(* C6: both providers resolve every commit's author in the fixed order     *)
(* handle, display name, e-mail, "Unknown Author", using a later field     *)
(* only when every earlier one is empty.                                   *)
(***************************************************************************)
ClaimedIdentity(c) ==
    IF c.login # "" THEN c.login
    ELSE IF c.name # "" THEN c.name
    ELSE IF c.email # "" THEN c.email
    ELSE "Unknown Author"

\* the commits the finished walk was handed
CommitsSeen ==
    UNION {Range(ListCommits(provider, files[i])) : i \in DOMAIN files}

C6_IdentityResolutionOrder ==
    Succeeded => DOMAIN ret.m = {ClaimedIdentity(c) : c \in CommitsSeen}

(***************************************************************************)
(* C7: every PullRequest of a successful ListPullRequests is open.         *)
(***************************************************************************)
PullsSucceeded == prPc = "done" /\ ~prRet.err

\* C7 as claimed: for both providers State is the string "open"
C7_EveryStateIsOpen ==
    PullsSucceeded =>
        \A i \in DOMAIN prRet.list : prRet.list[i].State = "open"

\* the provider's own name of the open state
OpenState(p) == IF p = "github" THEN "open" ELSE "opened"

\* C7 as amended: State is the provider's name of the open state, "open" for
\* GitHubClient and "opened" for GitLabClient, and no closed or merged entry
\* appears
C7_EveryStateIsProviderOpen ==
    PullsSucceeded =>
        \A i \in DOMAIN prRet.list :
            /\ prRet.list[i].State = OpenState(provider)
            /\ prRet.list[i].State \notin {"closed", "merged"}

\* GitLab listed an open merge request although the remote also holds a
\* merged one
C7_OpenListedBesideMerged ==
    /\ PullsSucceeded
    /\ provider = "gitlab"
    /\ Len(prRet.list) = 1
    /\ \E i \in DOMAIN prRemote : prRemote[i].state = "merged"

(***************************************************************************)
(* C8: GetBlameInfo counts the full history of each file: each of the N    *)
(* commits of a file's history adds to its author's total, for any N.      *)
(***************************************************************************)
C8_FullHistoryCounted ==
    Succeeded =>
        TotalLines(ret.m) =
            SumOf([i \in DOMAIN files |-> Len(histories[files[i]])],
                  DOMAIN files)

(***************************************************************************)
(* C9: the totals do not depend on the order of the file list: a call      *)
(* repeated with the same file paths in any order, over the same           *)
(* histories, returns the map the first call returned.                     *)
(***************************************************************************)
C9_SameTotalsInAnyOrder ==
    (Succeeded /\ prev.set /\ IsPermutationOf(files, prev.files))
        => ret.m = prev.m

\* a call over two files with two authors was repeated in the other order
C9_RepeatedInOtherOrder ==
    /\ Succeeded
    /\ prev.set
    /\ files # prev.files
    /\ Cardinality(DOMAIN ret.m) = 2
    /\ TotalLines(ret.m) = MaxCommits

(***************************************************************************)
(* C10: GetBlameInfo with an empty file list issues no remote call and     *)
(* returns an empty, non-nil map without error; FormatBlameInfo of that    *)
(* map is the header with no author line.                                  *)
(***************************************************************************)
C10_EmptyFileList ==
    (pc = "done" /\ files = <<>>) =>
        /\ calls = 0
        /\ ~ret.err
        /\ ~ret.isNil
        /\ ret.m = EmptyMap
        /\ output.written => (output.header = BlameHeader /\ output.lines = <<>>)

C10_EmptyListPrinted ==
    /\ pc = "done"
    /\ files = <<>>
    /\ calls = 0
    /\ output.written

(***************************************************************************)
(* Helpers of the properties of validate.                                  *)
(***************************************************************************)
\* validate has returned
Validated == srvPc = "validated"

\* a check of a request standing alone: whether the request fails it, and
\* the status and the errors that report it
Check(failed, status, errs) ==
    [failed |-> failed, status |-> status, errs |-> errs]

RECURSIVE FirstFailed(_)
\* the first failed check of a sequence of checks, or the check that stands
\* for no failure: status 200 and a nil error
FirstFailed(checks) ==
    IF checks = <<>> THEN Check(FALSE, StatusOK, {""})
    ELSE IF Head(checks).failed THEN Head(checks)
    ELSE FirstFailed(Tail(checks))

\* validate reported exactly the given check
Reported(check) ==
    /\ response.status = check.status
    /\ valErr \in check.errs
    /\ check.failed <=> response.written

IsString(arg) == arg.kind = "string"

IsEmptyString(arg, empty) == arg.kind = "string" /\ arg.val = empty

\* the checks every reading of validate starts with
TransportChecks(r) ==
    << Check(r.method # "POST", StatusMethodNotAllowed,
             {"method not allowed"}),
       Check(r.contentType # "application/json", StatusUnsupportedMediaType,
             {"invalid content type"}),
       Check(r.body.kind # "json", StatusBadRequest,
             {"error reading request body", "invalid JSON format"}),
       Check(r.body.name \notin {"git-blame", "git-log"}, StatusBadRequest,
             {"invalid name"}) >>

(***************************************************************************)
(* C16: validate reports the first failing check in a fixed order and      *)
(* nothing later.                                                          *)
(***************************************************************************)
\* C16 as claimed: method, content type, body, name, provider not
\* github/gitlab, missing or empty token, missing or empty repository,
\* pullRequest <= 0
ClaimedChecks(r) ==
    TransportChecks(r) \o
    << Check(r.body.provider.val \notin {"github", "gitlab"},
             StatusBadRequest, {"invalid provider type"}),
       Check(r.body.token.kind = "missing" \/ r.body.token.val = "",
             StatusBadRequest, {"token is required"}),
       Check(r.body.repository.kind = "missing"
             \/ r.body.repository.val = <<>>,
             StatusBadRequest, {"repository is required"}),
       Check(r.body.pullRequest.val <= 0, StatusBadRequest,
             {"pull request number must be positive"}) >>

\* the requests the claimed list of checks speaks about: every argument is
\* of its type, and only the token or the repository may be absent
InClaimedCases(r) ==
    r.body.kind = "json" =>
        /\ IsString(r.body.provider)
        /\ r.body.token.kind \in {"missing", "string"}
        /\ r.body.repository.kind \in {"missing", "string"}
        /\ r.body.pullRequest.kind = "number"

C16_ClaimedOrder ==
    (Validated /\ InClaimedCases(request))
        => Reported(FirstFailed(ClaimedChecks(request)))

\* C16 as amended: method, content type, body, name; then the presence and
\* the type of provider (and its value), token, repository and pullRequest,
\* in this order; and only then empty token, empty repository and a
\* pullRequest whose integer part is not positive
AmendedChecks(r) ==
    TransportChecks(r) \o
    << Check(r.body.provider.kind = "missing", StatusBadRequest,
             {"provider is required"}),
       Check(~IsString(r.body.provider), StatusBadRequest,
             {"invalid provider type format"}),
       Check(r.body.provider.val \notin {"github", "gitlab"},
             StatusBadRequest, {"invalid provider type"}),
       Check(r.body.token.kind = "missing", StatusBadRequest,
             {"token is required"}),
       Check(~IsString(r.body.token), StatusBadRequest,
             {"invalid token format"}),
       Check(r.body.repository.kind = "missing", StatusBadRequest,
             {"repository is required"}),
       Check(~IsString(r.body.repository), StatusBadRequest,
             {"invalid repository format"}),
       Check(r.body.pullRequest.kind = "missing", StatusBadRequest,
             {"pull request is required"}),
       Check(r.body.pullRequest.kind # "number", StatusBadRequest,
             {"invalid pull request format"}),
       Check(IsEmptyString(r.body.token, ""), StatusBadRequest,
             {"token is required"}),
       Check(IsEmptyString(r.body.repository, <<>>), StatusBadRequest,
             {"repository is required"}),
       Check(r.body.pullRequest.val < 2, StatusBadRequest,
             {"pull request number must be positive"}) >>

C16_AmendedOrder ==
    Validated => Reported(FirstFailed(AmendedChecks(request)))

\* an empty token came with no repository, and the repository was reported
C16_EmptyTokenMissingRepository ==
    /\ Validated
    /\ IsEmptyString(request.body.token, "")
    /\ request.body.repository.kind = "missing"
    /\ valErr = "repository is required"

(***************************************************************************)
(* C17: validate returns a nil error exactly for the well-formed requests; *)
(* then it writes no status (the response stays 200) and returns a non-nil *)
(* request; otherwise it returns an error and a status other than 200.     *)
(***************************************************************************)
\* all of a well-formed request but the condition on the pull request number
WellFormedButNumber(r) ==
    /\ r.method = "POST"
    /\ r.contentType = "application/json"
    /\ r.body.kind = "json"
    /\ r.body.name \in {"git-blame", "git-log"}
    /\ IsString(r.body.provider)
    /\ r.body.provider.val \in {"github", "gitlab"}
    /\ IsString(r.body.token) /\ ~IsEmptyString(r.body.token, "")
    /\ IsString(r.body.repository) /\ ~IsEmptyString(r.body.repository, <<>>)
    /\ r.body.pullRequest.kind = "number"

NilErrorOutcome == valErr = "" /\ ~response.written
                   /\ response.status = StatusOK /\ ~req.isNil

ErrorOutcome == valErr # "" /\ response.written
                /\ response.status # StatusOK /\ req.isNil

\* C17 as claimed: the pull request number is numeric and greater than zero
C17_NilErrorIffPositiveNumber ==
    Validated =>
        IF WellFormedButNumber(request) /\ request.body.pullRequest.val > 0
        THEN NilErrorOutcome
        ELSE ErrorOutcome

\* C17 as amended: the integer part of the pull request number is greater
\* than zero, i.e. the number is at least 1
C17_NilErrorIffNumberAtLeastOne ==
    Validated =>
        IF WellFormedButNumber(request) /\ request.body.pullRequest.val >= 2
        THEN NilErrorOutcome
        ELSE ErrorOutcome

\* a request with the pull request number 7.5 was accepted as number 7
C17_FractionAccepted ==
    /\ Validated
    /\ request.body.pullRequest = ArgNumber(15)
    /\ NilErrorOutcome
    /\ req.pullRequest = 7

(***************************************************************************)
(* Helpers of the properties of the server.                                *)
(***************************************************************************)
\* the handler has returned
ServerDone == srvPc = "done"

\* validate accepted the request
PassedValidation == ~req.isNil

\* ListPullRequests returned a list, and the numbers on it
ListSucceeded == prPc = "done" /\ ~prRet.err

ListFailed == prPc = "done" /\ prRet.err

ListedNumbers == {prRet.list[i].Number : i \in DOMAIN prRet.list}

\* GetBlameInfo was not called: no step of it was taken
NoBlameCall == pc = "idle" /\ calls = 0

\* ListPullRequests was not called
NoListCall == prPc = "idle" /\ prCalls = 0

(***************************************************************************)
(* C11: a request whose pull-request number is not among the pull requests *)
(* ListPullRequests returned ends in 404, and GetBlameInfo is never called *)
(* for it.                                                                 *)
(***************************************************************************)
C11_AbsentNumberIsNotFound ==
    (PassedValidation /\ ListSucceeded /\ req.pullRequest \notin ListedNumbers)
        => /\ NoBlameCall
           /\ ServerDone => response.status = StatusNotFound

\* number 99 was requested when only number 7 is open
C11_AbsentNumberAnswered ==
    /\ ServerDone
    /\ ListSucceeded
    /\ req.pullRequest = 99
    /\ ListedNumbers = {7}
    /\ response.status = StatusNotFound

(***************************************************************************)
(* C12: not-found and failure are answered distinctly: 404 only when       *)
(* ListPullRequests succeeded and the number is absent from its list, and  *)
(* 500, never 404, whenever ListPullRequests or GetBlameInfo returned an   *)
(* error.                                                                  *)
(***************************************************************************)
C12_NotFoundDistinctFromFailure ==
    ServerDone =>
        /\ response.status = StatusNotFound
              => /\ PassedValidation
                 /\ ListSucceeded
                 /\ req.pullRequest \notin ListedNumbers
        /\ (ListFailed \/ Failed)
              => response.status = StatusInternalServerError

\* the fetch of the files of a listed pull request failed
C12_ListFailureAnswered ==
    /\ ServerDone
    /\ ListFailed
    /\ prCalls = 2
    /\ response.status = StatusInternalServerError

(***************************************************************************)
(* C13: when the credential gate rejects the token the handler answers     *)
(* 401, Authenticate is called exactly once, and neither ListPullRequests  *)
(* nor GetBlameInfo is called.                                             *)
(***************************************************************************)
C13_RejectedTokenIsUnauthorized ==
    (PassedValidation /\ req.token # AcceptedToken)
        => /\ authCalls <= 1
           /\ NoListCall
           /\ NoBlameCall
           /\ ServerDone => /\ response.status = StatusUnauthorized
                            /\ authCalls = 1

C13_RejectedTokenAnswered ==
    /\ ServerDone
    /\ PassedValidation
    /\ req.token = "bad"
    /\ authCalls = 1
    /\ response.status = StatusUnauthorized

(***************************************************************************)
(* C14: ListPullRequests and GetBlameInfo reject a repository identifier   *)
(* that does not split into one owner and one name at a single '/' with an *)
(* error, and issue no remote call with it.                                *)
(***************************************************************************)
Malformed(fullName) == Len(Split(fullName, "/")) # 2

C14_MalformedIdentifierRejected ==
    Malformed(repoFullName)
        => /\ prCalls = 0
           /\ calls = 0
           /\ prPc = "done" => prRet.err
           /\ pc = "done" => ret.err

(***************************************************************************)
(* C15: cross-provider parity.  On the same file list and the same         *)
(* histories the GitHub client and the GitLab client return the same map.  *)
(***************************************************************************)
RECURSIVE GitHubBlameInfoOf(_, _)
\* the map a GitHub walk of the files adds up, from the map m
GitHubBlameInfoOf(m, fs) ==
    IF fs = <<>> THEN m
    ELSE GitHubBlameInfoOf(GitHubAddCommits(m, GitHubListCommits(Head(fs))),
                           Tail(fs))

RECURSIVE GitLabBlameInfoOf(_, _)
\* the map a GitLab walk of the files adds up, from the map m
GitLabBlameInfoOf(m, fs) ==
    IF fs = <<>> THEN m
    ELSE GitLabBlameInfoOf(GitLabAddCommits(m, GitLabListCommits(Head(fs))),
                           Tail(fs))

C15_SameMapOnBothProviders ==
    Succeeded =>
        ret.m = IF provider = "github"
                THEN GitLabBlameInfoOf(EmptyMap, files)
                ELSE GitHubBlameInfoOf(EmptyMap, files)

(***************************************************************************)
(* C18: handlePrompts answers a GET with 200 and the two prompts git-blame *)
(* and git-log, in this order, each with the four arguments provider,      *)
(* token, repository, pullRequest; any other method gets 405 and no list.  *)
(***************************************************************************)
C18_PromptList ==
    (ServerDone /\ request.path = "/prompts")
        => IF request.method = "GET"
           THEN /\ response.status = StatusOK
                /\ Len(response.prompts) = 2
                /\ response.prompts[1].Name = "git-blame"
                /\ response.prompts[2].Name = "git-log"
                /\ \A i \in DOMAIN response.prompts :
                      response.prompts[i].Arguments =
                          <<"provider", "token", "repository", "pullRequest">>
           ELSE /\ response.status = StatusMethodNotAllowed
                /\ response.prompts = <<>>

C18_PromptsServed ==
    /\ ServerDone
    /\ request.path = "/prompts"
    /\ request.method = "GET"
    /\ response.status = StatusOK

(***************************************************************************)
(* C19: a valid git-log message whose pull request is found is answered    *)
(* with a success response.                                                *)
(***************************************************************************)
C19_ValidGitLogSucceeds ==
    (ServerDone /\ PassedValidation /\ req.Name = "git-log"
     /\ ~selectedPR.isNil)
        => /\ response.status = StatusOK
           /\ response.Status = "success"

(***************************************************************************)
(* C20: FormatBlameInfo lists the authors in non-increasing order of their *)
(* counts, and every entry of the map appears on exactly one line.         *)
(***************************************************************************)
C20_NonIncreasingAndComplete ==
    output.written =>
        /\ \A i \in DOMAIN output.lines :
              i > 1 => RankedCounts[i - 1] >= RankedCounts[i]
        /\ Len(output.lines) = Cardinality(DOMAIN ret.m)
        /\ \A a \in DOMAIN ret.m :
              Cardinality({i \in DOMAIN output.lines :
                              output.lines[i] = BlameLine(ret.m[a])}) = 1

\* three authors with three different counts were ranked
C20_ThreeRanked ==
    /\ output.written
    /\ Len(output.lines) = 3
    /\ RankedCounts[1] > RankedCounts[2]
    /\ RankedCounts[2] > RankedCounts[3]

(***************************************************************************)
(* Helpers of the properties of the command line.                          *)
(***************************************************************************)
\* runAnalysis has returned, or has stopped in a panic
CliEnded == cliPc = "returned"

\* ListRepositories returned an error
ReposFailed == repoCalls > 0 /\ repoRet.err

(***************************************************************************)
(* C21: no retry and no continuation after a failure.  Each of             *)
(* ListRepositories, ListPullRequests and GetBlameInfo issues its remote   *)
(* calls one after another, none twice; the call that returns an error is  *)
(* the last one the operation issues, and the operation returns the error. *)
(***************************************************************************)
C21_NoCallAfterFailure ==
    \* ListRepositories: its one call
    /\ repoCalls <= 1
    /\ ReposFailed => repoRet.isNil
    \* ListPullRequests: the listing call, then one call for each entry
    /\ prPc = "loop" => prCalls = prIdx
    /\ ListFailed =>
          /\ prRet.isNil
          /\ IF prs = <<>> THEN prCalls = 1
             ELSE prCalls = 1 + prIdx /\ prIdx <= Len(prs)
    \* GetBlameInfo: one call for each file
    /\ pc = "walk" => calls = fileIdx - 1
    /\ Failed =>
          /\ ret.isNil
          /\ calls = fileIdx
          /\ fileIdx <= Len(files)
    \* and the caller gets the error and calls nothing more
    /\ (CliEnded /\ (ReposFailed \/ ListFailed \/ Failed)) =>
          cliRet = ReturnedError
    /\ ReposFailed => prCalls = 0 /\ calls = 0
    /\ ListFailed => calls = 0

\* the fetch of the first of two files failed: one call, none for the other
C21_FirstFetchFailed ==
    /\ CliEnded
    /\ provider = "gitlab"
    /\ Failed
    /\ Len(files) = 2
    /\ fileIdx = 1
    /\ calls = 1
    /\ cliRet = ReturnedError

(***************************************************************************)
(* C29: for each supported provider and each analysis type, runAnalysis    *)
(* ends by returning nil or an error; it never panics once a repository    *)
(* and a pull request are selected.                                        *)
(***************************************************************************)
C29_NoPanicAfterSelection ==
    (CliEnded /\ provider \in Providers /\ analysisType \in AnalysisTypes
     /\ ~selectedPR.isNil)
        => cliRet \in {ReturnedNil, ReturnedError}

(***************************************************************************)
(* C22: a successful ListPullRequests that returns n change requests has   *)
(* issued exactly 1 + n remote calls, the listing call and one fetch of    *)
(* the changed files for each entry of the listing, all before it returns; *)
(* each returned change request carries the files of its own fetch.        *)
(***************************************************************************)
C22_OneFetchPerPullRequest ==
    PullsSucceeded =>
        /\ prCalls = 1 + Len(prRet.list)
        /\ Len(prRet.list) = Len(prs)
        /\ prIdx = Len(prs) + 1
        /\ \A i \in DOMAIN prRet.list :
              /\ prRet.list[i].Number = prs[i].number
              /\ prRet.list[i].ChangedFiles = prFiles[prs[i].number]

\* two change requests with different files were returned after three calls
C22_TwoFetched ==
    /\ PullsSucceeded
    /\ provider = "github"
    /\ Len(prRet.list) = 2
    /\ prCalls = 3
    /\ prRet.list[1].ChangedFiles # <<>>
    /\ prRet.list[1].ChangedFiles # prRet.list[2].ChangedFiles

(***************************************************************************)
(* C23: within one GetBlameInfo call no count decreases from one step of   *)
(* the walk to the next and none is reset; an author that is in the map    *)
(* stays in it until the call returns, and the map returned is the map of  *)
(* the last step.                                                          *)
(***************************************************************************)
\* every entry of the map m is in the map n, with a count that is not less
GrownTo(m, n) ==
    \A a \in DOMAIN m : a \in DOMAIN n /\ n[a].Lines >= m[a].Lines

C23_CountsNeverDecrease ==
    [][pc = "walk" => /\ GrownTo(blameInfo, blameInfo')
                      /\ (pc' = "done" /\ ~ret'.err) => ret'.m = blameInfo]_vars

\* an author counted in the first file was counted again in the second
C23_CountedInTwoFiles ==
    /\ pc = "walk"
    /\ fileIdx = 3
    /\ files = <<"a.go", "b.go">>
    /\ \E a \in DOMAIN blameInfo :
          /\ blameInfo[a].Lines = 2
          /\ \E i \in DOMAIN histories["a.go"] :
                Author(provider, histories["a.go"][i]) = a
          /\ \E i \in DOMAIN histories["b.go"] :
                Author(provider, histories["b.go"][i]) = a

(***************************************************************************)
(* C24: no state crosses GetBlameInfo calls.  A call that follows another  *)
(* on the same client starts from an empty map: what it returns is what a  *)
(* walk of its own file list over the histories adds to the empty map,     *)
(* whatever the call before it returned.                                   *)
(***************************************************************************)
\* the map a walk of the files adds up, from the map m
BlameInfoOf(m, fs) ==
    IF provider = "github" THEN GitHubBlameInfoOf(m, fs)
    ELSE GitLabBlameInfoOf(m, fs)

C24_EachCallStartsEmpty ==
    /\ pc = "walk" =>
          blameInfo = BlameInfoOf(EmptyMap, SubSeq(files, 1, fileIdx - 1))
    /\ Succeeded => ret.m = BlameInfoOf(EmptyMap, files)

\* a call returned after a call that had returned counts
C24_SecondCallReturned ==
    /\ Succeeded
    /\ provider = "gitlab"
    /\ prev.set
    /\ prev.m # EmptyMap
    /\ ret.m # EmptyMap

(***************************************************************************)
(* C25: conservation of weight.  The counts of the map a successful        *)
(* GetBlameInfo returns add up to the number of (file, commit) pairs of    *)
(* the histories it fetched, a file listed twice or a commit in two        *)
(* histories counted once per occurrence.                                  *)
(***************************************************************************)
\* the commits the calls of the walk fetched, file by file
FetchedPairs ==
    SumOf([i \in DOMAIN files |-> Len(ListCommits(provider, files[i]))],
          DOMAIN files)

C25_CountsAddUpToFetchedCommits ==
    Succeeded => TotalLines(ret.m) = FetchedPairs

\* a.go was listed twice and its two commits were counted twice
C25_FileListedTwice ==
    /\ Succeeded
    /\ provider = "gitlab"
    /\ files = <<"a.go", "a.go">>
    /\ Len(histories["a.go"]) = 2
    /\ \E i \in DOMAIN histories["a.go"] : histories["a.go"][i].name = ""
    /\ TotalLines(ret.m) = 4

(***************************************************************************)
(* C26: in every state of a walk and in its result each entry of the map   *)
(* has its User equal to its key and a count of at least 1, so that the    *)
(* handler's map keyed by User has one key for each entry.                 *)
(***************************************************************************)
KeyedByUser(m) ==
    /\ \A k \in DOMAIN m : m[k].User = k /\ m[k].Lines >= 1
    /\ DOMAIN BlameData(m) = DOMAIN m
    /\ \A k \in DOMAIN m : BlameData(m)[k] = Digits(m[k].Lines)

C26_UserIsKey ==
    /\ KeyedByUser(blameInfo)
    /\ KeyedByUser(ret.m)

\* a map of two authors, one known by the e-mail address only, was returned
C26_TwoEntriesReturned ==
    /\ Succeeded
    /\ provider = "gitlab"
    /\ DOMAIN ret.m = {"alice", "carol@x"}

(***************************************************************************)
(* C27: every request handled by handleMessages gets exactly one response  *)
(* status, on every path: nothing is written twice, and the handler does   *)
(* not return before a status is written.                                  *)
(***************************************************************************)
C27_ExactlyOneStatus ==
    request.path = "/messages" =>
        /\ writes <= 1
        /\ ServerDone => (writes = 1 /\ response.written)
        /\ ~ServerDone => (writes = 0 /\ ~response.written)

\* git log failed after the clone and the change of directory
C27_GitLogFailureAnswered ==
    /\ ServerDone
    /\ req.Name = "git-log"
    /\ logStep = 3
    /\ response.status = StatusInternalServerError
    /\ writes = 1

(***************************************************************************)
(* C28: requests do not interfere through the state of the process:        *)
(* handling a git-log request leaves the working directory of the process  *)
(* as it was before the request.                                           *)
(***************************************************************************)
C28_WorkingDirectoryKept ==
    ServerDone => cwd = StartDir

(***************************************************************************)
(* C30: the token cache round trip and its frame.  After SaveToken(p, t)   *)
(* succeeded for p github or gitlab, GetCachedToken(p) returns t and       *)
(* GetCachedToken of the other provider returns what it returned before    *)
(* the save; SaveToken with any other provider returns an error and leaves *)
(* the cache file as it was.                                               *)
(***************************************************************************)
OtherProvider(p) == IF p = "github" THEN "gitlab" ELSE "github"

=============================================================================
